---- MODULE Spec2Model ----
(***************************************************************************)
(* ShambaLuvAirdrop: the claim-and-accounting ledger of the luvdrop        *)
(* repository, with the ERC20 token it moves and the two OpenZeppelin      *)
(* bases it inherits (Ownable, ReentrancyGuard).                           *)
(*                                                                         *)
(* One transaction is one step.  A transaction that reverts leaves the     *)
(* storage of the ledger and of the token as it found them; only `last`,   *)
(* the receipt of the most recent transaction, and the count of            *)
(* transactions record it.                                                 *)
(*                                                                         *)
(* Token amounts are counted in units of 10^28 base units, so that the     *)
(* constructor's 1_000_000_000_000 * 1e18 is 100.                          *)
(***************************************************************************)
EXTENDS Integers, FiniteSets, Sequences, TLC

VARIABLES
    owner,          \* Ownable._owner
    defaultToken,   \* IERC20 public immutable defaultToken
    tokenConfigs,   \* mapping(address => AirdropConfig)
    hasClaimed,     \* mapping(address => mapping(address => bool))
    status,         \* ReentrancyGuard._status
    balances,       \* the tokens' balanceOf, per token and holder
    last,           \* receipt of the last transaction: what was called, how it ended
    nTx,            \* number of transactions sent to the ledger so far
    amountAtClaim,  \* history: per token and claimant, the configured amount when
                    \* the claim succeeded (0: no claim succeeded)
    paidOut,        \* history: per token and claimant, what left custody in the
                    \* claim that succeeded
    events,         \* the event log: what the transactions emitted, in the order
                    \* in which they completed
    audit,          \* whether this behaviour keeps the event log (the ledger
                    \* never reads it)
    account,        \* the page: useAccount's address and isConnected
    message,        \* the page: the status message
    transactionLogs, \* the page: the transaction log, newest entry first
    fundingAmount,  \* the page: the funding panel's amount field
    withdrawAmount, \* the page: the withdrawal panel's amount field
    wallet,         \* the page: the contract writes whose callback is awaited
    walletLog,      \* history: the contract writes handed to the wallet and the
                    \* answers that came back, in order
    script          \* the funding script: where main is, what it read and sent

vars == <<owner, defaultToken, tokenConfigs, hasClaimed, status, balances, last, nTx,
          amountAtClaim, paidOut, events, audit, account, message, transactionLogs,
          fundingAmount, withdrawAmount, wallet, walletLog, script>>

-----------------------------------------------------------------------------
(* Bounds of the model *)

\* transactions sent to the ledger, per behaviour
MaxTx == 3
\* total supply of each token, all of it held by the deployer at construction
Supply == 250
\* the largest uint256, scaled down so that checked arithmetic can overflow
MaxUint == 400

-----------------------------------------------------------------------------
(* Addresses *)

\* amount of the default token's configuration set by the constructor
DefaultAirdropAmount == 100

NullAddress == "0x0"
Ledger == "this"
Deployer == "owner"
Addrs == {"owner", "alice", "bob"}
Holders == Addrs \cup {Ledger}
Tokens == {"LUV", "OTHER"}
TokenArgs == Tokens \cup {NullAddress}
Amounts == {0, 100, 150}
MoveAmounts == {0, DefaultAirdropAmount, Supply}
XferOutcomes == {"ok", "false", "revert"}
NewOwners == {"alice", NullAddress}

NOT_ENTERED == "NOT_ENTERED"
ENTERED == "ENTERED"

NoEvent == <<>>

\* errors that are not one of the ledger's own require messages
OwnableUnauthorizedAccount == "OwnableUnauthorizedAccount"
ReentrantCall == "ReentrancyGuard: reentrant call"
Panic == "Panic(0x11)"
TokenReverted == "reverted by the token"

-----------------------------------------------------------------------------
(* The storage a transaction reads and writes, as one value *)

World ==
    [owner |-> owner, cfg |-> tokenConfigs, claimed |-> hasClaimed,
     status |-> status, bal |-> balances]

\* require(...) failing, or any revert: storage as at the start of the call
Revert(w, reason) == [res |-> reason, w |-> w, ev |-> NoEvent]
Return(w, ev) == [res |-> "Ok", w |-> w, ev |-> ev]

-----------------------------------------------------------------------------
(* The ERC20 token *)

balanceOf(bal, token, holder) == bal[token][holder]

\* what a conforming token does to its balances when it accepts a transfer
MoveTokens(bal, token, from, to, amount) ==
    [bal EXCEPT ![token] =
        [h \in Holders |->
            bal[token][h] - (IF h = from THEN amount ELSE 0)
                          + (IF h = to THEN amount ELSE 0)]]

\* transfer / transferFrom accepted: the token did not decline and from can pay
TransferOk(bal, token, from, amount, xfer) ==
    xfer = "ok" /\ balanceOf(bal, token, from) >= amount

\* an account sending amount of its tokens to the ledger's address with the
\* token's own transfer, as the funding panel of the UI does: the ledger is not
\* called and records nothing
DirectTransfer(w, token, from, amount) ==
    [w EXCEPT !.bal = MoveTokens(w.bal, token, from, Ledger, amount)]

\* a token that returns false fails the require around the call; a token that
\* raises (as a conforming one does when from cannot pay) passes its own error up
TransferError(xfer) ==
    IF xfer = "false" THEN "Transfer failed" ELSE TokenReverted

-----------------------------------------------------------------------------
(* Ownable *)

onlyOwner(w, sender, out) ==
    IF w.owner # sender THEN Revert(w, OwnableUnauthorizedAccount) ELSE out

transferOwnership(w, sender, newOwner) ==
    onlyOwner(w, sender,
        IF newOwner = NullAddress THEN Revert(w, "OwnableInvalidOwner")
        ELSE Return([w EXCEPT !.owner = newOwner],
                    <<"OwnershipTransferred", w.owner, newOwner>>))

renounceOwnership(w, sender) ==
    onlyOwner(w, sender,
        Return([w EXCEPT !.owner = NullAddress],
               <<"OwnershipTransferred", w.owner, NullAddress>>))

-----------------------------------------------------------------------------
(* ReentrancyGuard *)

\* the guard's flag once a nonReentrant function has been entered
Entered(w) == [w EXCEPT !.status = ENTERED]

\* out is what the function's body does to Entered(w)
nonReentrant(w, out) ==
    IF w.status = ENTERED THEN Revert(w, ReentrantCall)
    ELSE IF out.res = "Ok" THEN [out EXCEPT !.w.status = NOT_ENTERED]
    ELSE Revert(w, out.res)

-----------------------------------------------------------------------------
(* Claims *)

\* variant: the require chain without require(!hasClaimed[token][msg.sender])
ClaimCheck_NoAlreadyClaimed(w, sender, token) ==
    IF token = NullAddress THEN "Invalid token address"
    ELSE IF ~w.cfg[token].isActive THEN "Airdrop not active for this token"
    ELSE IF ~(w.cfg[token].amount > 0) THEN "Airdrop amount not set"
    ELSE IF ~(balanceOf(w.bal, token, Ledger) >= w.cfg[token].amount)
         THEN "Insufficient tokens in contract"
    ELSE "Ok"

\* variant: the require chain with the active check moved to the front
ClaimCheck_ActiveFirst(w, sender, token) ==
    IF token = NullAddress THEN "Invalid token address"
    ELSE IF ~w.cfg[token].isActive THEN "Airdrop not active for this token"
    ELSE IF w.claimed[token][sender] THEN "Already claimed for this token"
    ELSE IF ~(w.cfg[token].amount > 0) THEN "Airdrop amount not set"
    ELSE IF ~(balanceOf(w.bal, token, Ledger) >= w.cfg[token].amount)
         THEN "Insufficient tokens in contract"
    ELSE "Ok"

\* variant: the require chain with contractBalance > config.amount
ClaimCheck_StrictBalance(w, sender, token) ==
    IF token = NullAddress THEN "Invalid token address"
    ELSE IF w.claimed[token][sender] THEN "Already claimed for this token"
    ELSE IF ~w.cfg[token].isActive THEN "Airdrop not active for this token"
    ELSE IF ~(w.cfg[token].amount > 0) THEN "Airdrop amount not set"
    ELSE IF ~(balanceOf(w.bal, token, Ledger) > w.cfg[token].amount)
         THEN "Insufficient tokens in contract"
    ELSE "Ok"

\* variant: the balance required to cover what was claimed before as well
ClaimCheck_BalanceCoversTotal(w, sender, token) ==
    IF token = NullAddress THEN "Invalid token address"
    ELSE IF w.claimed[token][sender] THEN "Already claimed for this token"
    ELSE IF ~w.cfg[token].isActive THEN "Airdrop not active for this token"
    ELSE IF ~(w.cfg[token].amount > 0) THEN "Airdrop amount not set"
    ELSE IF ~(balanceOf(w.bal, token, Ledger)
                >= w.cfg[token].totalClaimed + w.cfg[token].amount)
         THEN "Insufficient tokens in contract"
    ELSE "Ok"

\* variant: the require chain without require(config.amount > 0)
ClaimCheck_NoAmountCheck(w, sender, token) ==
    IF token = NullAddress THEN "Invalid token address"
    ELSE IF w.claimed[token][sender] THEN "Already claimed for this token"
    ELSE IF ~w.cfg[token].isActive THEN "Airdrop not active for this token"
    ELSE IF ~(balanceOf(w.bal, token, Ledger) >= w.cfg[token].amount)
         THEN "Insufficient tokens in contract"
    ELSE "Ok"

\* the require chain of claimAirdropForToken, first failure first
ClaimCheck(w, sender, token) ==
    IF token = NullAddress THEN "Invalid token address"
    ELSE IF w.claimed[token][sender] THEN "Already claimed for this token"
    ELSE IF ~w.cfg[token].isActive THEN "Airdrop not active for this token"
    ELSE IF ~(w.cfg[token].amount > 0) THEN "Airdrop amount not set"
    ELSE IF ~(balanceOf(w.bal, token, Ledger) >= w.cfg[token].amount)
         THEN "Insufficient tokens in contract"
    ELSE "Ok"

\* variant: the marking with isActive cleared, as a one-shot airdrop would do
MarkClaimed_Deactivates(w, sender, token) ==
    [w EXCEPT !.claimed[token][sender] = TRUE,
              !.cfg[token].totalClaimed = @ + w.cfg[token].amount,
              !.cfg[token].totalRecipients = @ + 1,
              !.cfg[token].isActive = FALSE]

\* variant: the marking without totalRecipients++
MarkClaimed_NoRecipient(w, sender, token) ==
    [w EXCEPT !.claimed[token][sender] = TRUE,
              !.cfg[token].totalClaimed = @ + w.cfg[token].amount]

\* variant: the marking with totalClaimed recomputed from the current amount
MarkClaimed_Recomputed(w, sender, token) ==
    [w EXCEPT !.claimed[token][sender] = TRUE,
              !.cfg[token].totalClaimed =
                  (w.cfg[token].totalRecipients + 1) * w.cfg[token].amount,
              !.cfg[token].totalRecipients = @ + 1]

\* variant: one claim record per address, shared by all tokens
MarkClaimed_EveryToken(w, sender, token) ==
    [w EXCEPT !.claimed = [t \in Tokens |-> [w.claimed[t] EXCEPT ![sender] = TRUE]],
              !.cfg[token].totalClaimed = @ + w.cfg[token].amount,
              !.cfg[token].totalRecipients = @ + 1]

\* hasClaimed = true; totalClaimed += amount; totalRecipients++
MarkClaimed(w, sender, token) ==
    [w EXCEPT !.claimed[token][sender] = TRUE,
              !.cfg[token].totalClaimed = @ + w.cfg[token].amount,
              !.cfg[token].totalRecipients = @ + 1]

\* variant: the two additions inside unchecked { }
ClaimOverflows_Unchecked(w, token) == FALSE

\* the two checked additions of Solidity 0.8
ClaimOverflows(w, token) ==
    \/ w.cfg[token].totalClaimed + w.cfg[token].amount > MaxUint
    \/ w.cfg[token].totalRecipients + 1 > MaxUint

\* variant: the claim without its emit
ClaimBody_NoEmit(w, sender, token, xfer) ==
    LET check == ClaimCheck(w, sender, token) IN
    IF check # "Ok" THEN Revert(w, check)
    ELSE IF ClaimOverflows(w, token) THEN Revert(w, Panic)
    ELSE LET marked == MarkClaimed(w, sender, token)
             amount == marked.cfg[token].amount
         IN  IF xfer = "reenter" THEN Revert(w, ReentrantCall)
             ELSE IF ~TransferOk(marked.bal, token, Ledger, amount, xfer)
                  THEN Revert(w, TransferError(xfer))
             ELSE Return([marked EXCEPT !.bal =
                             MoveTokens(marked.bal, token, Ledger, sender, amount)],
                         NoEvent)

\* variant: the claim with the bool that transfer returns not looked at
ClaimBody_Unchecked(w, sender, token, xfer) ==
    LET check == ClaimCheck(w, sender, token) IN
    IF check # "Ok" THEN Revert(w, check)
    ELSE IF ClaimOverflows(w, token) THEN Revert(w, Panic)
    ELSE LET marked == MarkClaimed(w, sender, token)
             amount == marked.cfg[token].amount
         IN  IF xfer = "revert" THEN Revert(w, TokenReverted)
             ELSE IF xfer = "false"
                  THEN Return(marked, <<"AirdropClaimed", token, sender, amount>>)
             ELSE Return([marked EXCEPT !.bal =
                             MoveTokens(marked.bal, token, Ledger, sender, amount)],
                         <<"AirdropClaimed", token, sender, amount>>)

\* A token answering "reenter" has the claimant call claimAirdropForToken(token)
\* again from inside transfer, before it moves anything, passes a revert of that
\* call up, and otherwise goes on to accept the transfer.
RECURSIVE claimAirdropForToken(_, _, _, _)
ClaimBody(w, sender, token, xfer) ==
    LET check == ClaimCheck(w, sender, token) IN
    IF check # "Ok" THEN Revert(w, check)
    ELSE IF ClaimOverflows(w, token) THEN Revert(w, Panic)
    ELSE LET marked == MarkClaimed(w, sender, token)
             amount == marked.cfg[token].amount
             callback == IF xfer = "reenter"
                         THEN claimAirdropForToken(marked, sender, token, "ok")
                         ELSE Return(marked, NoEvent)
             answer == IF xfer = "reenter" THEN "ok" ELSE xfer
         IN  IF callback.res # "Ok" THEN Revert(w, callback.res)
             ELSE IF ~TransferOk(callback.w.bal, token, Ledger, amount, answer)
             THEN Revert(w, TransferError(answer))
             ELSE Return([callback.w EXCEPT !.bal =
                             MoveTokens(callback.w.bal, token, Ledger, sender, amount)],
                         <<"AirdropClaimed", token, sender, amount>>)

\* variant: claimAirdropForToken declared without nonReentrant
claimAirdropForToken_Unguarded(w, sender, token, xfer) ==
    ClaimBody(w, sender, token, xfer)

claimAirdropForToken(w, sender, token, xfer) ==
    nonReentrant(w, ClaimBody(Entered(w), sender, token, xfer))

claimAirdrop(w, sender, xfer) ==
    nonReentrant(w, claimAirdropForToken(Entered(w), sender, defaultToken, xfer))

\* the storage as the token finds it when the claim calls transfer: the claim
\* recorded, the guard entered, nothing moved yet
AtTransfer(w, sender, token) == MarkClaimed(Entered(w), sender, token)

\* the points of the transfer a token can call out from: before it has moved the
\* amount and after
TransferPoints(w, sender, token) ==
    LET marked == AtTransfer(w, sender, token) IN
    {marked,
     [marked EXCEPT !.bal = MoveTokens(marked.bal, token, Ledger, sender,
                                       marked.cfg[token].amount)]}

-----------------------------------------------------------------------------
(* Views *)

hasUserClaimed(w, token, user) == w.claimed[token][user]

getAirdropStats(w, token) ==
    <<w.cfg[token].amount, w.cfg[token].totalClaimed, w.cfg[token].totalRecipients,
      balanceOf(w.bal, token, Ledger), w.cfg[token].isActive>>

getTokenBalance(w, token) == balanceOf(w.bal, token, Ledger)

isAirdropActive(w, token) == w.cfg[token].isActive

\* The overloads without a token argument.  Like the ones above they are
\* `external view`: they return a value and have no storage to return changed.
hasUserClaimedDefault(w, user) == w.claimed[defaultToken][user]

\* variant: balanceOf the deployer for balanceOf(address(this))
getAirdropStatsDefault_OfDeployer(w) ==
    LET config == w.cfg[defaultToken] IN
    <<config.amount, config.totalClaimed, config.totalRecipients,
      balanceOf(w.bal, defaultToken, Deployer), config.isActive>>

getAirdropStatsDefault(w) ==
    LET config == w.cfg[defaultToken] IN
    <<config.amount, config.totalClaimed, config.totalRecipients,
      balanceOf(w.bal, defaultToken, Ledger), config.isActive>>

getTokenBalanceDefault(w) == balanceOf(w.bal, defaultToken, Ledger)

isAirdropActiveDefault(w) == w.cfg[defaultToken].isActive

-----------------------------------------------------------------------------
(* Administration *)

\* variant: the configuration assigned as a whole struct, as the constructor does
setAirdropConfig_WholeStruct(w, sender, token, amount, isActive) ==
    onlyOwner(w, sender,
        IF token = NullAddress THEN Revert(w, "Invalid token address")
        ELSE Return([w EXCEPT !.cfg[token] =
                        [amount |-> amount, isActive |-> isActive,
                         totalClaimed |-> 0, totalRecipients |-> 0]],
                    <<"AirdropConfigUpdated", token, w.cfg[token].amount,
                      amount, isActive>>))

\* variant: a token once deactivated stays so (isActive = config.isActive && isActive)
setAirdropConfig_OneWayOff(w, sender, token, amount, isActive) ==
    onlyOwner(w, sender,
        IF token = NullAddress THEN Revert(w, "Invalid token address")
        ELSE Return([w EXCEPT !.cfg[token].amount = amount,
                              !.cfg[token].isActive = @ /\ isActive],
                    <<"AirdropConfigUpdated", token, w.cfg[token].amount,
                      amount, isActive>>))

setAirdropConfig(w, sender, token, amount, isActive) ==
    onlyOwner(w, sender,
        IF token = NullAddress THEN Revert(w, "Invalid token address")
        ELSE Return([w EXCEPT !.cfg[token].amount = amount,
                              !.cfg[token].isActive = isActive],
                    <<"AirdropConfigUpdated", token, w.cfg[token].amount,
                      amount, isActive>>))

\* variant: setAirdropAmount leaving isActive as it finds it
setAirdropAmount_KeepsActive(w, sender, newAmount) ==
    onlyOwner(w, sender,
        IF defaultToken = NullAddress THEN Revert(w, "Invalid token address")
        ELSE Return([w EXCEPT !.cfg[defaultToken].amount = newAmount],
                    <<"AirdropConfigUpdated", defaultToken,
                      w.cfg[defaultToken].amount, newAmount,
                      w.cfg[defaultToken].isActive>>))

\* variant: setAirdropAmount starting the token's totals afresh
setAirdropAmount_ResetsTotals(w, sender, newAmount) ==
    onlyOwner(w, sender,
        Return([w EXCEPT !.cfg[defaultToken] =
                    [amount |-> newAmount, isActive |-> TRUE,
                     totalClaimed |-> 0, totalRecipients |-> 0]],
               <<"AirdropConfigUpdated", defaultToken,
                 w.cfg[defaultToken].amount, newAmount, TRUE>>))

setAirdropAmount(w, sender, newAmount) ==
    onlyOwner(w, sender,
        IF defaultToken = NullAddress THEN Revert(w, "Invalid token address")
        ELSE Return([w EXCEPT !.cfg[defaultToken].amount = newAmount,
                              !.cfg[defaultToken].isActive = TRUE],
                    <<"AirdropConfigUpdated", defaultToken,
                      w.cfg[defaultToken].amount, newAmount, TRUE>>))

\* variant: a deposit that also switches the token's airdrop on
depositTokens_Activates(w, sender, token, amount, xfer) ==
    onlyOwner(w, sender,
        IF token = NullAddress THEN Revert(w, "Invalid token address")
        ELSE IF ~(amount > 0) THEN Revert(w, "Amount must be greater than 0")
        ELSE IF ~TransferOk(w.bal, token, sender, amount, xfer)
             THEN Revert(w, TransferError(xfer))
        ELSE Return([w EXCEPT !.bal = MoveTokens(w.bal, token, sender, Ledger, amount),
                              !.cfg[token].isActive = TRUE],
                    <<"TokensDeposited", token, sender, amount>>))

\* variant: the bool that transferFrom returns not looked at
depositTokens_Unchecked(w, sender, token, amount, xfer) ==
    onlyOwner(w, sender,
        IF token = NullAddress THEN Revert(w, "Invalid token address")
        ELSE IF ~(amount > 0) THEN Revert(w, "Amount must be greater than 0")
        ELSE IF xfer = "revert" \/ (xfer = "ok" /\ balanceOf(w.bal, token, sender) < amount)
             THEN Revert(w, TokenReverted)
        ELSE IF xfer = "false"
             THEN Return(w, <<"TokensDeposited", token, sender, amount>>)
        ELSE Return([w EXCEPT !.bal = MoveTokens(w.bal, token, sender, Ledger, amount)],
                    <<"TokensDeposited", token, sender, amount>>))

depositTokens(w, sender, token, amount, xfer) ==
    onlyOwner(w, sender,
        IF token = NullAddress THEN Revert(w, "Invalid token address")
        ELSE IF ~(amount > 0) THEN Revert(w, "Amount must be greater than 0")
        ELSE IF ~TransferOk(w.bal, token, sender, amount, xfer)
             THEN Revert(w, TransferError(xfer))
        ELSE Return([w EXCEPT !.bal = MoveTokens(w.bal, token, sender, Ledger, amount)],
                    <<"TokensDeposited", token, sender, amount>>))

depositTokensDefault(w, sender, amount, xfer) ==
    onlyOwner(w, sender,
        IF defaultToken = NullAddress THEN Revert(w, "Invalid token address")
        ELSE IF ~(amount > 0) THEN Revert(w, "Amount must be greater than 0")
        ELSE IF ~TransferOk(w.bal, defaultToken, sender, amount, xfer)
             THEN Revert(w, TransferError(xfer))
        ELSE Return([w EXCEPT !.bal =
                        MoveTokens(w.bal, defaultToken, sender, Ledger, amount)],
                    <<"TokensDeposited", defaultToken, sender, amount>>))

\* variant: the transfer asked for without require(amount <= contractBalance)
SendOut_NoBalanceCheck(w, token, to, amount, xfer, event) ==
    IF ~TransferOk(w.bal, token, Ledger, amount, xfer)
    THEN Revert(w, TransferError(xfer))
    ELSE Return([w EXCEPT !.bal = MoveTokens(w.bal, token, Ledger, to, amount)],
                <<event, token, to, amount>>)

\* withdrawTokens and rescueTokens after their argument checks
SendOut(w, token, to, amount, xfer, event) ==
    IF ~(amount <= balanceOf(w.bal, token, Ledger))
    THEN Revert(w, "Insufficient balance")
    ELSE IF ~TransferOk(w.bal, token, Ledger, amount, xfer)
         THEN Revert(w, TransferError(xfer))
    ELSE Return([w EXCEPT !.bal = MoveTokens(w.bal, token, Ledger, to, amount)],
                <<event, token, to, amount>>)

\* emergencyWithdraw and rescueAllTokens after their argument checks
SendAll(w, token, to, xfer, event) ==
    LET contractBalance == balanceOf(w.bal, token, Ledger) IN
    IF contractBalance > 0
    THEN IF ~TransferOk(w.bal, token, Ledger, contractBalance, xfer)
         THEN Revert(w, TransferError(xfer))
         ELSE Return([w EXCEPT !.bal =
                         MoveTokens(w.bal, token, Ledger, to, contractBalance)],
                     <<event, token, to, contractBalance>>)
    ELSE Return(w, NoEvent)

\* variant: withdrawTokens without the onlyOwner modifier
withdrawTokens_NoOnlyOwner(w, sender, token, amount, xfer) ==
    IF token = NullAddress THEN Revert(w, "Invalid token address")
    ELSE IF ~(amount > 0) THEN Revert(w, "Amount must be greater than 0")
    ELSE SendOut(w, token, sender, amount, xfer, "TokensWithdrawn")

\* variant: withdrawTokens without require(amount <= contractBalance)
withdrawTokens_NoBalanceCheck(w, sender, token, amount, xfer) ==
    onlyOwner(w, sender,
        IF token = NullAddress THEN Revert(w, "Invalid token address")
        ELSE IF ~(amount > 0) THEN Revert(w, "Amount must be greater than 0")
        ELSE IF ~TransferOk(w.bal, token, Ledger, amount, xfer)
             THEN Revert(w, TransferError(xfer))
        ELSE Return([w EXCEPT !.bal = MoveTokens(w.bal, token, Ledger, sender, amount)],
                    <<"TokensWithdrawn", token, sender, amount>>))

\* variant: require(amount < contractBalance) for require(amount <= contractBalance)
withdrawTokens_StrictBalance(w, sender, token, amount, xfer) ==
    onlyOwner(w, sender,
        IF token = NullAddress THEN Revert(w, "Invalid token address")
        ELSE IF ~(amount > 0) THEN Revert(w, "Amount must be greater than 0")
        ELSE IF ~(amount < balanceOf(w.bal, token, Ledger))
             THEN Revert(w, "Insufficient balance")
        ELSE SendOut(w, token, sender, amount, xfer, "TokensWithdrawn"))

withdrawTokens(w, sender, token, amount, xfer) ==
    onlyOwner(w, sender,
        IF token = NullAddress THEN Revert(w, "Invalid token address")
        ELSE IF ~(amount > 0) THEN Revert(w, "Amount must be greater than 0")
        ELSE SendOut(w, token, sender, amount, xfer, "TokensWithdrawn"))

\* variant: the overload for the default token without the balance check of
\* the parameterised one
withdrawTokensDefault_NoBalanceCheck(w, sender, amount, xfer) ==
    onlyOwner(w, sender,
        IF defaultToken = NullAddress THEN Revert(w, "Invalid token address")
        ELSE IF ~(amount > 0) THEN Revert(w, "Amount must be greater than 0")
        ELSE IF ~TransferOk(w.bal, defaultToken, Ledger, amount, xfer)
             THEN Revert(w, TransferError(xfer))
        ELSE Return([w EXCEPT !.bal =
                        MoveTokens(w.bal, defaultToken, Ledger, sender, amount)],
                    <<"TokensWithdrawn", defaultToken, sender, amount>>))

withdrawTokensDefault(w, sender, amount, xfer) ==
    onlyOwner(w, sender,
        IF defaultToken = NullAddress THEN Revert(w, "Invalid token address")
        ELSE IF ~(amount > 0) THEN Revert(w, "Amount must be greater than 0")
        ELSE SendOut(w, defaultToken, sender, amount, xfer, "TokensWithdrawn"))

\* variant: an empty ledger is an error, as it is for withdrawTokens
emergencyWithdraw_ZeroReverts(w, sender, token, xfer) ==
    onlyOwner(w, sender,
        IF token = NullAddress THEN Revert(w, "Invalid token address")
        ELSE IF ~(balanceOf(w.bal, token, Ledger) > 0)
             THEN Revert(w, "Insufficient balance")
        ELSE SendAll(w, token, sender, xfer, "EmergencyWithdraw"))

emergencyWithdraw(w, sender, token, xfer) ==
    onlyOwner(w, sender,
        IF token = NullAddress THEN Revert(w, "Invalid token address")
        ELSE SendAll(w, token, sender, xfer, "EmergencyWithdraw"))

emergencyWithdrawDefault(w, sender, xfer) ==
    onlyOwner(w, sender,
        IF defaultToken = NullAddress THEN Revert(w, "Invalid token address")
        ELSE SendAll(w, defaultToken, sender, xfer, "EmergencyWithdraw"))

rescueTokens(w, sender, token, to, amount, xfer) ==
    onlyOwner(w, sender,
        IF token = NullAddress THEN Revert(w, "Invalid token address")
        ELSE IF to = NullAddress THEN Revert(w, "Invalid recipient address")
        ELSE IF ~(amount > 0) THEN Revert(w, "Amount must be greater than 0")
        ELSE SendOut(w, token, to, amount, xfer, "TokensRescued"))

\* variant: a token whose airdrop is active cannot be rescued
rescueAllTokens_NotAirdropToken(w, sender, token, to, xfer) ==
    onlyOwner(w, sender,
        IF token = NullAddress THEN Revert(w, "Invalid token address")
        ELSE IF to = NullAddress THEN Revert(w, "Invalid recipient address")
        ELSE IF w.cfg[token].isActive THEN Revert(w, "Cannot rescue airdrop token")
        ELSE SendAll(w, token, to, xfer, "TokensRescued"))

rescueAllTokens(w, sender, token, to, xfer) ==
    onlyOwner(w, sender,
        IF token = NullAddress THEN Revert(w, "Invalid token address")
        ELSE IF to = NullAddress THEN Revert(w, "Invalid recipient address")
        ELSE SendAll(w, token, to, xfer, "TokensRescued"))

-----------------------------------------------------------------------------
(* The web page (AirdropUI.tsx)                                            *)
(*                                                                         *)
(* One call of a handler, and one callback of a wallet call, is one step.  *)
(* What the wagmi hooks last read from the chain is an input of the        *)
(* handler that uses it.  A value that may be undefined is <<>> when it is *)
(* and <<v>> otherwise.  Amounts are counted in tenths of a token.         *)

Undefined == <<>>
Some(v) == <<v>>
Known(x) == Len(x) > 0
Val(x) == x[1]

AIRDROP_ADDRESS == Ledger
LUV_TOKEN_ADDRESS == "LUV"
OWNER_ADDRESS == "0x16666644043AECB616A061F0AF42745d0d7390c4"
FUNDING_ADDRESS == "0x4F87FED88d1D48dA0434Db3E533722FEd988888D"

\* the addresses a wallet reports: the owner's as written in the source, the
\* funding account's in lower case, and a visitor's
FundingLowerCase == "0x4f87fed88d1d48da0434db3e533722fed988888d"
Visitor == "0x00000000000000000000000000000000000a11ce"
Accounts == {OWNER_ADDRESS, FundingLowerCase, Visitor}
NoAddress == "undefined"

\* String.prototype.toLowerCase on the addresses above
toLowerCase(a) ==
    CASE a = OWNER_ADDRESS -> "0x16666644043aecb616a061f0af42745d0d7390c4"
      [] a = FUNDING_ADDRESS -> FundingLowerCase
      [] OTHER -> a

\* what is typed into the funding panel's amount field, and into the
\* withdrawal panel's
FormInputs == {"0", "1", "abc"}
WithdrawInputs == {"-1", "0.5"}

\* parseFloat on those, the number in tenths
parseFloat(s) ==
    CASE s = "0"   -> [nan |-> FALSE, tenths |-> 0]
      [] s = "-1"  -> [nan |-> FALSE, tenths |-> -10]
      [] s = "0.5" -> [nan |-> FALSE, tenths |-> 5]
      [] s = "1"   -> [nan |-> FALSE, tenths |-> 10]
      [] s = "3"   -> [nan |-> FALSE, tenths |-> 30]
      [] OTHER     -> [nan |-> TRUE, tenths |-> 0]

\* viem's parseEther on those: the amount in tenths of a token, or an exception
\* for what is not a decimal number
parseEther(s) ==
    CASE s = ""    -> [throws |-> FALSE, value |-> 0]
      [] s = "0"   -> [throws |-> FALSE, value |-> 0]
      [] s = "-1"  -> [throws |-> FALSE, value |-> -10]
      [] s = "0.5" -> [throws |-> FALSE, value |-> 5]
      [] s = "1"   -> [throws |-> FALSE, value |-> 10]
      [] s = "3"   -> [throws |-> FALSE, value |-> 30]
      [] s = "1000000" -> [throws |-> FALSE, value |-> 10000000]
      [] OTHER     -> [throws |-> TRUE, value |-> 0]

\* !x || parseFloat(x) <= 0, which is false of NaN
NotAnAmount(s) == s = "" \/ (~parseFloat(s).nan /\ parseFloat(s).tenths <= 0)

\* the component's state, as one value
Ui ==
    [account |-> account, message |-> message, transactionLogs |-> transactionLogs,
     fundingAmount |-> fundingAmount, withdrawAmount |-> withdrawAmount,
     wallet |-> wallet, walletLog |-> walletLog]

\* useState's initial values, no wallet connected
FirstRender ==
    [account |-> [address |-> NoAddress, isConnected |-> FALSE],
     message |-> "Connect your wallet to interact with the SHAMBA LUV Airdrop",
     transactionLogs |-> <<>>,
     fundingAmount |-> "", withdrawAmount |-> "",
     wallet |-> <<>>, walletLog |-> <<>>]

\* what useBalance and useContractRead can have delivered when handleClaim runs;
\* airdropStats is (airdropAmount, totalClaimed, totalRecipients,
\* contractBalance, isActive)
BalanceReads == {Undefined, Some([value |-> 0]), Some([value |-> 5]), Some([value |-> 10])}
StatsReads ==
    {Undefined, Some(<<0, 0, 0, 30, TRUE>>), Some(<<10, 0, 0, 30, TRUE>>),
     Some(<<10, 0, 0, 30, FALSE>>)}
ClaimedReads == {Undefined, Some(TRUE), Some(FALSE)}
ClaimReads ==
    [airdropBalance : BalanceReads, airdropStats : StatsReads, userClaimed : ClaimedReads]

realAirdropStats(r) ==
    [airdropAmount |-> IF Known(r.airdropStats) THEN Val(r.airdropStats)[1] ELSE 0,
     totalClaimed |-> IF Known(r.airdropStats) THEN Val(r.airdropStats)[2] ELSE 0,
     totalRecipients |-> IF Known(r.airdropStats) THEN Val(r.airdropStats)[3] ELSE 0,
     contractBalance |->
        IF Known(r.airdropStats) THEN Val(r.airdropStats)[4]
        ELSE IF Known(r.airdropBalance) THEN Val(r.airdropBalance).value ELSE 0,
     isActive |-> IF Known(r.airdropStats) THEN Val(r.airdropStats)[5] ELSE FALSE]

isOwner(u) == toLowerCase(u.account.address) = toLowerCase(OWNER_ADDRESS)
isFundingAccount(u) == toLowerCase(u.account.address) = toLowerCase(FUNDING_ADDRESS)
userHasClaimed(r) == IF Known(r.userClaimed) THEN Val(r.userClaimed) ELSE FALSE

\* reason "" stands for no reason
getAirdropStatus(r) ==
    LET contractBalance ==
            IF Known(r.airdropBalance) THEN Val(r.airdropBalance).value ELSE 0
        airdropAmount == realAirdropStats(r).airdropAmount
    IN  IF contractBalance < airdropAmount
        THEN [isActive |-> FALSE, hasEnded |-> TRUE,
              reason |-> IF contractBalance = 0
                         THEN "Airdrop has ended - No tokens remaining"
                         ELSE "Airdrop has ended - Insufficient tokens",
              remainingTokens |-> contractBalance]
        ELSE [isActive |-> realAirdropStats(r).isActive, hasEnded |-> FALSE,
              reason |-> "", remainingTokens |-> contractBalance]

\* the entries kept besides the new one
LogKeep == 9

\* variant: slice(0, 10)
addTransactionLog_KeepsEleven(logs, type, logStatus) ==
    LET newLog == [id |-> IF logs = <<>> THEN 1 ELSE logs[1].id + 1,
                   type |-> type, status |-> logStatus]
    IN  <<newLog>> \o SubSeq(logs, 1, IF Len(logs) < LogKeep + 1 THEN Len(logs) ELSE LogKeep + 1)

\* [newLog, ...prev.slice(0, 9)].  The id, made of Date.now() and Math.random(),
\* is one no entry had before: here the number of the entry.  Of an entry the
\* type and the status are kept.
addTransactionLog(logs, type, logStatus) ==
    LET newLog == [id |-> IF logs = <<>> THEN 1 ELSE logs[1].id + 1,
                   type |-> type, status |-> logStatus]
    IN  <<newLog>> \o SubSeq(logs, 1, IF Len(logs) < LogKeep THEN Len(logs) ELSE LogKeep)

addLog(u, type, logStatus) ==
    [u EXCEPT !.transactionLogs = addTransactionLog(@, type, logStatus)]

setMessage(u, m) == [u EXCEPT !.message = m]

\* writeContract of a useContractWrite hook: the call goes to the wallet and one
\* of its two callbacks runs later
writeContract(u, address, functionName, args) ==
    LET call == [address |-> address, functionName |-> functionName, args |-> args]
    IN  [u EXCEPT !.wallet = Append(@, call),
                  !.walletLog = Append(@, [what |-> "submitted", call |-> call])]

\* writeContract throwing instead: no call reaches the wallet, no callback runs
writeContractThrows(u, address, functionName, args) ==
    LET call == [address |-> address, functionName |-> functionName, args |-> args]
    IN  [u EXCEPT !.walletLog = Append(@, [what |-> "threw", call |-> call])]

\* variant: the pause is looked at before the end
handleClaim_PausedFirst(u, r) ==
    LET airdropStatus == getAirdropStatus(r) IN
    IF ~u.account.isConnected
    THEN setMessage(u, "Please connect your wallet first")
    ELSE IF userHasClaimed(r)
    THEN setMessage(u, "You have already claimed your airdrop")
    ELSE IF ~airdropStatus.isActive
    THEN setMessage(u, "Airdrop is currently paused")
    ELSE IF airdropStatus.hasEnded
    THEN setMessage(u, IF airdropStatus.reason # "" THEN airdropStatus.reason
                       ELSE "Airdrop has ended")
    ELSE writeContract(addLog(u, "claim", "pending"),
                       AIRDROP_ADDRESS, "claimAirdropForToken", <<LUV_TOKEN_ADDRESS>>)

handleClaim(u, r) ==
    LET airdropStatus == getAirdropStatus(r) IN
    IF ~u.account.isConnected
    THEN setMessage(u, "Please connect your wallet first")
    ELSE IF userHasClaimed(r)
    THEN setMessage(u, "You have already claimed your airdrop")
    ELSE IF airdropStatus.hasEnded
    THEN setMessage(u, IF airdropStatus.reason # "" THEN airdropStatus.reason
                       ELSE "Airdrop has ended")
    ELSE IF ~airdropStatus.isActive
    THEN setMessage(u, "Airdrop is currently paused")
    ELSE writeContract(addLog(u, "claim", "pending"),
                       AIRDROP_ADDRESS, "claimAirdropForToken", <<LUV_TOKEN_ADDRESS>>)

claimOnSuccess(u) ==
    setMessage(addLog(u, "claim", "success"), "Airdrop claimed successfully!")

claimOnError(u) ==
    setMessage(addLog(u, "claim", "error"), "Claim failed. Please try again.")

\* the try block as far as the call of approveTokens
FundingStarted(u) == addLog(addLog(u, "deposit", "pending"), "approval", "pending")

\* the catch block
FundingCaught(u) ==
    setMessage(addLog(u, "deposit", "error"), "Transfer failed. Please try again.")

\* userBalance is what useBalance last delivered; approveCall is whether the call
\* of approveTokens returns or throws, which is when the catch block runs.  An
\* amount that parseEther rejects ends the handler with an exception outside
\* the try block.
handleFundingTransfer(u, userBalance, approveCall) ==
    IF ~u.account.isConnected
    THEN setMessage(u, "Please connect your wallet first")
    ELSE IF ~isFundingAccount(u)
    THEN setMessage(u, "Only the funding account can transfer tokens to the contract")
    ELSE IF NotAnAmount(u.fundingAmount)
    THEN setMessage(u, "Please enter a valid amount")
    ELSE IF parseEther(u.fundingAmount).throws
    THEN u
    ELSE LET amount == parseEther(u.fundingAmount).value IN
         IF Known(userBalance) /\ amount > Val(userBalance).value
         THEN setMessage(u, "Insufficient balance")
         ELSE IF approveCall = "throws"
         THEN FundingCaught(writeContractThrows(FundingStarted(u), LUV_TOKEN_ADDRESS,
                                                "approve", <<AIRDROP_ADDRESS, amount>>))
         ELSE writeContract(FundingStarted(u), LUV_TOKEN_ADDRESS, "approve",
                            <<AIRDROP_ADDRESS, amount>>)

\* variant: the transfer is sent whether or not the approval went through
approveOnError_TransfersAnyway(u, call) ==
    writeContract(setMessage(addLog(u, "approval", "error"), "Approval failed. Please try again."),
                  LUV_TOKEN_ADDRESS, "transfer", call.args)

\* the transfer carries the amount of the handler's call, which the approve
\* call carried too
approveOnSuccess(u, call) ==
    writeContract(addLog(u, "approval", "success"),
                  LUV_TOKEN_ADDRESS, "transfer", call.args)

approveOnError(u, call) ==
    setMessage(addLog(u, "approval", "error"), "Approval failed. Please try again.")

transferOnSuccess(u) ==
    [setMessage(addLog(u, "deposit", "success"), "Tokens transferred successfully!")
        EXCEPT !.fundingAmount = ""]

transferOnError(u) ==
    setMessage(addLog(u, "deposit", "error"), "Transfer failed. Please try again.")

handleWithdrawTokens(u) ==
    IF ~u.account.isConnected \/ ~isOwner(u)
    THEN setMessage(u, "Only the owner can withdraw tokens")
    ELSE IF NotAnAmount(u.withdrawAmount)
    THEN setMessage(u, "Please enter a valid amount")
    ELSE IF parseEther(u.withdrawAmount).throws
    THEN u
    ELSE writeContract(addLog(u, "withdraw", "pending"), AIRDROP_ADDRESS, "withdrawTokens",
                       <<LUV_TOKEN_ADDRESS, parseEther(u.withdrawAmount).value>>)

withdrawOnSuccess(u) ==
    [setMessage(addLog(u, "withdraw", "success"), "Tokens withdrawn successfully!")
        EXCEPT !.withdrawAmount = ""]

withdrawOnError(u) ==
    setMessage(addLog(u, "withdraw", "error"), "Withdrawal failed. Please try again.")

handleEmergencyWithdraw(u) ==
    IF ~u.account.isConnected \/ ~isOwner(u)
    THEN setMessage(u, "Only the owner can perform emergency withdrawal")
    ELSE writeContract(addLog(u, "emergency", "pending"), AIRDROP_ADDRESS,
                       "emergencyWithdraw", <<LUV_TOKEN_ADDRESS>>)

emergencyOnSuccess(u) ==
    setMessage(addLog(u, "emergency", "success"), "Emergency withdrawal successful!")

emergencyOnError(u) ==
    setMessage(addLog(u, "emergency", "error"), "Emergency withdrawal failed. Please try again.")

\* the wallet answers call i: it leaves the calls awaited
Answered(u, i, answer) ==
    [u EXCEPT !.wallet = SubSeq(@, 1, i - 1) \o SubSeq(@, i + 1, Len(@)),
              !.walletLog = Append(@, [what |-> answer, call |-> u.wallet[i]])]

\* the calls handed to the wallet so far, in order
IsSubmitted(e) == e.what = "submitted"
Submitted(u) == SelectSeq(u.walletLog, IsSubmitted)

\* the calls of writeContract so far
IsCall(e) == e.what \in {"submitted", "threw"}
Called(u) == SelectSeq(u.walletLog, IsCall)

-----------------------------------------------------------------------------
(* The funding script (fund-airdrop.js)                                    *)
(*                                                                         *)
(* Every await of main is one step.  The script runs once, with            *)
(* PRIVATE_KEY and the addresses configured.  exitCode is <<>> while it    *)
(* runs.                                                                   *)

ScriptStart ==
    [pc |-> "checkBalance", ownerBalance |-> 0, allowance |-> 0, fundingAmount |-> 0,
     sent |-> <<>>, success |-> FALSE, exitCode |-> Undefined]

\* what balanceOf and allowance can answer; Undefined: the read throws
ChainReads == {Undefined, Some(0), Some(10), Some(30), Some(10000000)}

\* process.argv[2]
ScriptArgs == {Undefined, Some("0.5"), Some("1"), Some("3"), Some("abc")}

\* how a transaction of the script can end: the wallet client throws before a
\* hash is there, the wait for the receipt throws, or there is a receipt, of a
\* transaction that succeeded or of one that reverted
TxAnswers == {"rejected", "lost", "success", "reverted"}

exit(s, code) == [s EXCEPT !.pc = "exited", !.exitCode = Some(code)]

\* a read that throws is reported and counts as 0
checkBalance(s, read) ==
    [s EXCEPT !.ownerBalance = IF Known(read) THEN Val(read) ELSE 0,
              !.pc = "checkAirdropBalance"]

checkAirdropBalance(s, read) == [s EXCEPT !.pc = "checkAllowance"]

checkAllowance(s, read) ==
    [s EXCEPT !.allowance = IF Known(read) THEN Val(read) ELSE 0,
              !.pc = "main"]

\* main from the funding amount to the choice between approval and deposit; an
\* argument parseEther rejects ends in main().catch
mainAmount(s, argv) ==
    LET parsed == IF Known(argv) THEN parseEther(Val(argv)) ELSE parseEther("1000000") IN
    IF parsed.throws
    THEN exit(s, 1)
    ELSE IF s.ownerBalance < parsed.value
    THEN exit([s EXCEPT !.fundingAmount = parsed.value], 1)
    ELSE IF s.allowance < parsed.value
    THEN [s EXCEPT !.fundingAmount = parsed.value, !.pc = "approveTokens"]
    ELSE [s EXCEPT !.fundingAmount = parsed.value, !.pc = "depositTokens"]

\* a transaction of the script, as it ended; receipt.status is not read
Sent(s, functionName, answer) ==
    [s EXCEPT !.sent = Append(@, [functionName |-> functionName,
                                  amount |-> s.fundingAmount, answer |-> answer])]

\* what approveTokens and depositTokens return
Confirmed(answer) == answer \in {"success", "reverted"}

approveTokens(s, answer) ==
    IF Confirmed(answer)
    THEN [Sent(s, "approve", answer) EXCEPT !.pc = "depositTokens"]
    ELSE exit(Sent(s, "approve", answer), 1)

\* after the deposit the statistics are printed and the script ends
depositTokens_Script(s, answer) ==
    IF Confirmed(answer)
    THEN exit([Sent(s, "depositTokens", answer) EXCEPT !.success = TRUE], 0)
    ELSE exit(Sent(s, "depositTokens", answer), 1)


\* the page as first rendered and the script not yet run: the ledger's
\* transactions below leave both alone
ClientIdle ==
    /\ account = FirstRender.account
    /\ message = FirstRender.message
    /\ transactionLogs = FirstRender.transactionLogs
    /\ fundingAmount = FirstRender.fundingAmount
    /\ withdrawAmount = FirstRender.withdrawAmount
    /\ wallet = FirstRender.wallet
    /\ walletLog = FirstRender.walletLog
    /\ script = ScriptStart

-----------------------------------------------------------------------------
(* The state machine *)

EmptyConfig == [amount |-> 0, isActive |-> FALSE, totalClaimed |-> 0, totalRecipients |-> 0]

\* the storage of an address no contract has been deployed to: all zero
Blank(bal) ==
    [owner |-> NullAddress, cfg |-> [t \in Tokens |-> EmptyConfig],
     claimed |-> [t \in Tokens |-> [a \in Addrs |-> FALSE]],
     status |-> NOT_ENTERED, bal |-> bal]

\* variant: the default token configured by the constructor but left inactive
constructor_Inactive(bal, sender, _defaultToken) ==
    IF _defaultToken = NullAddress
    THEN Revert(Blank(bal), "Invalid default token address")
    ELSE Return([Blank(bal) EXCEPT
                    !.owner = sender,
                    !.cfg[_defaultToken] =
                        [amount |-> DefaultAirdropAmount, isActive |-> FALSE,
                         totalClaimed |-> 0, totalRecipients |-> 0]],
                <<"OwnershipTransferred", NullAddress, sender>>)

\* the deployment: a failed one leaves no contract
constructor(bal, sender, _defaultToken) ==
    IF _defaultToken = NullAddress
    THEN Revert(Blank(bal), "Invalid default token address")
    ELSE Return([Blank(bal) EXCEPT
                    !.owner = sender,
                    !.cfg[_defaultToken] =
                        [amount |-> DefaultAirdropAmount, isActive |-> TRUE,
                         totalClaimed |-> 0, totalRecipients |-> 0]],
                <<"OwnershipTransferred", NullAddress, sender>>)

\* variant: the constructor with Ownable(_defaultToken) for Ownable(msg.sender)
Init_OwnerIsToken ==
    /\ owner = "LUV"
    /\ defaultToken = "LUV"
    /\ tokenConfigs =
         [t \in Tokens |->
            IF t = "LUV"
            THEN [amount |-> DefaultAirdropAmount, isActive |-> TRUE,
                  totalClaimed |-> 0, totalRecipients |-> 0]
            ELSE EmptyConfig]
    /\ hasClaimed = [t \in Tokens |-> [a \in Addrs |-> FALSE]]
    /\ status = NOT_ENTERED
    /\ balances = [t \in Tokens |-> [h \in Holders |-> IF h = Deployer THEN Supply ELSE 0]]
    /\ last = [op |-> "constructor", res |-> "Ok", ev |-> NoEvent]
    /\ nTx = 0
    /\ amountAtClaim = [t \in Tokens |-> [a \in Addrs |-> 0]]
    /\ paidOut = [t \in Tokens |-> [a \in Addrs |-> 0]]
    /\ events = <<>>
    /\ audit = FALSE
    /\ ClientIdle

\* The constructor has run for the deployer with a non-null default token.  The
\* ledger's address holds either nothing or, by a direct transfer of the token
\* (which is how the UI's funding panel pays in), the deployer's whole supply.
Init ==
    /\ owner = Deployer
    /\ defaultToken = "LUV"
    /\ tokenConfigs =
         [t \in Tokens |->
            IF t = defaultToken
            THEN [amount |-> DefaultAirdropAmount, isActive |-> TRUE,
                  totalClaimed |-> 0, totalRecipients |-> 0]
            ELSE EmptyConfig]
    /\ hasClaimed = [t \in Tokens |-> [a \in Addrs |-> FALSE]]
    /\ status = NOT_ENTERED
    /\ \E funded \in {0, Supply} :
         balances = [t \in Tokens |-> [h \in Holders |->
                        IF h = Deployer THEN (IF t = "LUV" THEN Supply - funded ELSE Supply)
                        ELSE IF h = Ledger /\ t = "LUV" THEN funded
                        ELSE 0]]
    /\ last = [op |-> "constructor", res |-> "Ok", ev |-> NoEvent]
    /\ nTx = 0
    /\ amountAtClaim = [t \in Tokens |-> [a \in Addrs |-> 0]]
    /\ paidOut = [t \in Tokens |-> [a \in Addrs |-> 0]]
    /\ events = <<>>
    /\ audit = FALSE
    /\ ClientIdle

\* The constructor has run; the ledger holds nothing, and tokens reach it by
\* depositTokens only; the event log is kept.
InitAudit ==
    /\ owner = Deployer
    /\ defaultToken = "LUV"
    /\ tokenConfigs =
         [t \in Tokens |->
            IF t = defaultToken
            THEN [amount |-> DefaultAirdropAmount, isActive |-> TRUE,
                  totalClaimed |-> 0, totalRecipients |-> 0]
            ELSE EmptyConfig]
    /\ hasClaimed = [t \in Tokens |-> [a \in Addrs |-> FALSE]]
    /\ status = NOT_ENTERED
    /\ balances = [t \in Tokens |-> [h \in Holders |-> IF h = Deployer THEN Supply ELSE 0]]
    /\ last = [op |-> "constructor", res |-> "Ok", ev |-> NoEvent]
    /\ nTx = 0
    /\ amountAtClaim = [t \in Tokens |-> [a \in Addrs |-> 0]]
    /\ paidOut = [t \in Tokens |-> [a \in Addrs |-> 0]]
    /\ events = <<>>
    /\ audit = TRUE
    /\ ClientIdle

\* The ledger after a history that brings totalClaimed near the largest uint256:
\* deployed, the default token's amount set to 150 and the supply sent to the
\* ledger; alice and bob have each claimed and sent what they were paid back to
\* the ledger.  totalClaimed is 300, custody the whole supply again.
Recycled ==
    LET bal0 == [t \in Tokens |-> [h \in Holders |-> IF h = Deployer THEN Supply ELSE 0]]
        w0 == constructor(bal0, Deployer, "LUV").w
        w1 == setAirdropConfig(w0, Deployer, "LUV", 150, TRUE).w
        w2 == DirectTransfer(w1, "LUV", Deployer, Supply)
        w3 == claimAirdropForToken(w2, "alice", "LUV", "ok").w
        w4 == DirectTransfer(w3, "LUV", "alice", 150)
        w5 == claimAirdropForToken(w4, "bob", "LUV", "ok").w
    IN  DirectTransfer(w5, "LUV", "bob", 150)

InitOverflow ==
    /\ owner = Recycled.owner
    /\ defaultToken = "LUV"
    /\ tokenConfigs = Recycled.cfg
    /\ hasClaimed = Recycled.claimed
    /\ status = Recycled.status
    /\ balances = Recycled.bal
    /\ last = [op |-> "claimAirdropForToken", res |-> "Ok",
               ev |-> <<"AirdropClaimed", "LUV", "bob", 150>>]
    /\ nTx = 0
    /\ amountAtClaim =
         [t \in Tokens |-> [a \in Addrs |-> IF Recycled.claimed[t][a] THEN 150 ELSE 0]]
    /\ paidOut =
         [t \in Tokens |-> [a \in Addrs |-> IF Recycled.claimed[t][a] THEN 150 ELSE 0]]
    /\ events = <<>>
    /\ audit = FALSE
    /\ ClientIdle

\* one transaction: its outcome becomes the storage, its receipt becomes `last`.
\* op is the name of a claim function, or "admin" for any onlyOwner function.
Transact(op, out) ==
    /\ nTx < MaxTx
    /\ owner' = out.w.owner
    /\ tokenConfigs' = out.w.cfg
    /\ hasClaimed' = out.w.claimed
    /\ status' = out.w.status
    /\ balances' = out.w.bal
    /\ last' = [op |-> op, res |-> out.res, ev |-> out.ev]
    /\ nTx' = nTx + 1
    /\ events' = IF audit /\ out.ev # NoEvent THEN Append(events, out.ev) ELSE events
    /\ UNCHANGED <<defaultToken, audit, account, message, transactionLogs,
                   fundingAmount, withdrawAmount, wallet, walletLog, script>>

\* a transaction of an onlyOwner function
Apply(op, out) ==
    /\ Transact(op, out)
    /\ UNCHANGED <<amountAtClaim, paidOut>>

\* a transaction of a claim function, by sender for token
ApplyClaim(op, sender, token, out) ==
    /\ Transact(op, out)
    /\ IF out.res = "Ok"
       THEN /\ amountAtClaim' =
                 [amountAtClaim EXCEPT ![token][sender] = tokenConfigs[token].amount]
            /\ paidOut' =
                 [paidOut EXCEPT ![token][sender] =
                     @ + balances[token][Ledger] - out.w.bal[token][Ledger]]
       ELSE UNCHANGED <<amountAtClaim, paidOut>>

\* The calls the model makes.  Any address calls; a token argument is a token or
\* null; the token answers a transfer by accepting, returning false or raising.
\* A call that fails before it reads an argument is made with one value of it.
\* A token may also answer the transfer of a claim by having the claimant claim
\* again from inside it.  The recipient of a rescue is any address that is not
\* null: another account, or the ledger itself.
ClaimCalls ==
    (Addrs \X TokenArgs \X XferOutcomes) \cup (Addrs \X Tokens \X {"reenter"})

ConfigCalls ==
    (Tokens \X Amounts \X BOOLEAN) \cup {<<NullAddress, 100, TRUE>>}

MoveCalls ==
    (Tokens \X (MoveAmounts \ {0}) \X XferOutcomes)
        \cup {<<NullAddress, 100, "ok">>, <<"LUV", 0, "ok">>}

SweepCalls == (Tokens \X XferOutcomes) \cup {<<NullAddress, "ok">>}

RescueCalls ==
    (Tokens \X {"alice"} \X (MoveAmounts \ {0}) \X XferOutcomes)
        \cup {<<NullAddress, "alice", 100, "ok">>, <<"LUV", NullAddress, 100, "ok">>,
              <<"LUV", "alice", 0, "ok">>, <<"LUV", Ledger, DefaultAirdropAmount, "ok">>}

RescueAllCalls ==
    (Tokens \X {"alice"} \X XferOutcomes)
        \cup {<<NullAddress, "alice", "ok">>, <<"LUV", NullAddress, "ok">>,
              <<"LUV", Ledger, "ok">>}

\* what an onlyOwner function is called with: any of S by the owner, one of S
\* by anybody else
Args(s, S) == IF s = owner THEN S ELSE {CHOOSE v \in S : TRUE}

ClaimAirdrop ==
    \E s \in Addrs, x \in XferOutcomes :
        ApplyClaim("claimAirdrop", s, defaultToken, claimAirdrop(World, s, x))

ClaimAirdropForToken ==
    \E c \in ClaimCalls :
        ApplyClaim("claimAirdropForToken", c[1], c[2],
                   claimAirdropForToken(World, c[1], c[2], c[3]))

SetAirdropConfig ==
    \E s \in Addrs : \E c \in Args(s, ConfigCalls) :
        Apply("admin", setAirdropConfig(World, s, c[1], c[2], c[3]))

SetAirdropAmount ==
    \E s \in Addrs : \E a \in Args(s, Amounts) :
        Apply("admin", setAirdropAmount(World, s, a))

DepositTokens ==
    \E s \in Addrs : \E c \in Args(s, MoveCalls) :
        Apply("admin", depositTokens(World, s, c[1], c[2], c[3]))

DepositTokensDefault ==
    \E s \in Addrs : \E a \in Args(s, MoveAmounts), x \in Args(s, XferOutcomes) :
        Apply("admin", depositTokensDefault(World, s, a, x))

WithdrawTokens ==
    \E s \in Addrs : \E c \in Args(s, MoveCalls) :
        Apply("admin", withdrawTokens(World, s, c[1], c[2], c[3]))

WithdrawTokensDefault ==
    \E s \in Addrs : \E a \in Args(s, MoveAmounts), x \in Args(s, XferOutcomes) :
        Apply("admin", withdrawTokensDefault(World, s, a, x))

EmergencyWithdraw ==
    \E s \in Addrs : \E c \in Args(s, SweepCalls) :
        Apply("admin", emergencyWithdraw(World, s, c[1], c[2]))

EmergencyWithdrawDefault ==
    \E s \in Addrs : \E x \in Args(s, XferOutcomes) :
        Apply("admin", emergencyWithdrawDefault(World, s, x))

RescueTokens ==
    \E s \in Addrs : \E c \in Args(s, RescueCalls) :
        Apply("admin", rescueTokens(World, s, c[1], c[2], c[3], c[4]))

RescueAllTokens ==
    \E s \in Addrs : \E c \in Args(s, RescueAllCalls) :
        Apply("admin", rescueAllTokens(World, s, c[1], c[2], c[3]))

TransferOwnership ==
    \E s \in Addrs : \E n \in Args(s, NewOwners) :
        Apply("admin", transferOwnership(World, s, n))

RenounceOwnership ==
    \E s \in Addrs :
        Apply("admin", renounceOwnership(World, s))

Next ==
    \/ ClaimAirdrop
    \/ ClaimAirdropForToken
    \/ SetAirdropConfig
    \/ SetAirdropAmount
    \/ DepositTokens
    \/ DepositTokensDefault
    \/ WithdrawTokens
    \/ WithdrawTokensDefault
    \/ EmergencyWithdraw
    \/ EmergencyWithdrawDefault
    \/ RescueTokens
    \/ RescueAllTokens
    \/ TransferOwnership
    \/ RenounceOwnership

Spec == Init /\ [][Next]_vars

\* the same transactions, with the event log kept
SpecAudit == InitAudit /\ [][Next]_vars

\* the same transactions on the ledger whose totalClaimed is near the largest
\* uint256; nTx counts the transactions from there
SpecOverflow == InitOverflow /\ [][Next]_vars

-----------------------------------------------------------------------------
(* The state machines of the page and of the script *)

ledgerVars ==
    <<owner, defaultToken, tokenConfigs, hasClaimed, status, balances, last, nTx,
      amountAtClaim, paidOut, events, audit>>

uiVars ==
    <<account, message, transactionLogs, fundingAmount, withdrawAmount, wallet, walletLog>>

\* the ledger as deployed, nothing paid in
Deployed ==
    /\ owner = Deployer
    /\ defaultToken = "LUV"
    /\ tokenConfigs = constructor(Blank([t \in Tokens |-> [h \in Holders |->
                          IF h = Deployer THEN Supply ELSE 0]]), Deployer, "LUV").w.cfg
    /\ hasClaimed = [t \in Tokens |-> [a \in Addrs |-> FALSE]]
    /\ status = NOT_ENTERED
    /\ balances = [t \in Tokens |-> [h \in Holders |-> IF h = Deployer THEN Supply ELSE 0]]
    /\ last = [op |-> "constructor", res |-> "Ok", ev |-> NoEvent]
    /\ nTx = 0
    /\ amountAtClaim = [t \in Tokens |-> [a \in Addrs |-> 0]]
    /\ paidOut = [t \in Tokens |-> [a \in Addrs |-> 0]]
    /\ events = <<>>
    /\ audit = FALSE

\* the page as first rendered, the script not started
InitUI ==
    /\ Deployed
    /\ ClientIdle

Render(u) ==
    /\ account' = u.account
    /\ message' = u.message
    /\ transactionLogs' = u.transactionLogs
    /\ fundingAmount' = u.fundingAmount
    /\ withdrawAmount' = u.withdrawAmount
    /\ wallet' = u.wallet
    /\ walletLog' = u.walletLog
    /\ UNCHANGED <<ledgerVars, script>>

\* the handlers' calls of writeContract the model follows
MaxCalls == 1

MayCall == Len(Called(Ui)) < MaxCalls

Connect ==
    \E a \in Accounts :
        /\ ~account.isConnected
        /\ Render([Ui EXCEPT !.account = [address |-> a, isConnected |-> TRUE]])

Disconnect ==
    /\ account.isConnected
    /\ Render([Ui EXCEPT !.account = [address |-> NoAddress, isConnected |-> FALSE]])

SetFundingAmount ==
    \E s \in FormInputs :
        /\ s # fundingAmount
        /\ Render([Ui EXCEPT !.fundingAmount = s])

SetWithdrawAmount ==
    \E s \in WithdrawInputs :
        /\ s # withdrawAmount
        /\ Render([Ui EXCEPT !.withdrawAmount = s])

HandleClaim ==
    /\ MayCall
    /\ \E r \in ClaimReads : Render(handleClaim(Ui, r))

\* writeContract is the mutate of a mutation hook, which hands every error to
\* onError: the call itself returns
ApproveCalls == {"returns"}

HandleFundingTransfer ==
    /\ MayCall
    /\ \E userBalance \in BalanceReads, approveCall \in ApproveCalls :
           Render(handleFundingTransfer(Ui, userBalance, approveCall))

HandleWithdrawTokens ==
    /\ MayCall
    /\ Render(handleWithdrawTokens(Ui))

HandleEmergencyWithdraw ==
    /\ MayCall
    /\ Render(handleEmergencyWithdraw(Ui))

ClaimAnswered ==
    \E i \in DOMAIN wallet, answer \in {"success", "error"} :
        /\ wallet[i].functionName = "claimAirdropForToken"
        /\ Render(IF answer = "success" THEN claimOnSuccess(Answered(Ui, i, answer))
                  ELSE claimOnError(Answered(Ui, i, answer)))

ApproveAnswered ==
    \E i \in DOMAIN wallet, answer \in {"success", "error"} :
        /\ wallet[i].functionName = "approve"
        /\ Render(IF answer = "success"
                  THEN approveOnSuccess(Answered(Ui, i, answer), wallet[i])
                  ELSE approveOnError(Answered(Ui, i, answer), wallet[i]))

TransferAnswered ==
    \E i \in DOMAIN wallet, answer \in {"success", "error"} :
        /\ wallet[i].functionName = "transfer"
        /\ Render(IF answer = "success" THEN transferOnSuccess(Answered(Ui, i, answer))
                  ELSE transferOnError(Answered(Ui, i, answer)))

WithdrawAnswered ==
    \E i \in DOMAIN wallet, answer \in {"success", "error"} :
        /\ wallet[i].functionName = "withdrawTokens"
        /\ Render(IF answer = "success" THEN withdrawOnSuccess(Answered(Ui, i, answer))
                  ELSE withdrawOnError(Answered(Ui, i, answer)))

EmergencyAnswered ==
    \E i \in DOMAIN wallet, answer \in {"success", "error"} :
        /\ wallet[i].functionName = "emergencyWithdraw"
        /\ Render(IF answer = "success" THEN emergencyOnSuccess(Answered(Ui, i, answer))
                  ELSE emergencyOnError(Answered(Ui, i, answer)))

NextUI ==
    \/ Connect
    \/ Disconnect
    \/ SetFundingAmount
    \/ SetWithdrawAmount
    \/ HandleClaim
    \/ HandleFundingTransfer
    \/ HandleWithdrawTokens
    \/ HandleEmergencyWithdraw
    \/ ClaimAnswered
    \/ ApproveAnswered
    \/ TransferAnswered
    \/ WithdrawAnswered
    \/ EmergencyAnswered

SpecUI == InitUI /\ [][NextUI]_vars

\* the entries a log of the model is made of, and how many are added
LogInputs == {<<"claim", "pending">>, <<"claim", "success">>}
MaxLogged == 11

AddTransactionLog ==
    \E e \in LogInputs :
        /\ (IF transactionLogs = <<>> THEN 0 ELSE transactionLogs[1].id) < MaxLogged
        /\ Render(addLog(Ui, e[1], e[2]))

\* addTransactionLog alone, called again and again
SpecLog == InitUI /\ [][AddTransactionLog]_vars

ScriptCheckBalance ==
    /\ script.pc = "checkBalance"
    /\ \E read \in ChainReads : script' = checkBalance(script, read)
    /\ UNCHANGED <<ledgerVars, uiVars>>

ScriptCheckAirdropBalance ==
    /\ script.pc = "checkAirdropBalance"
    /\ \E read \in ChainReads : script' = checkAirdropBalance(script, read)
    /\ UNCHANGED <<ledgerVars, uiVars>>

ScriptCheckAllowance ==
    /\ script.pc = "checkAllowance"
    /\ \E read \in ChainReads : script' = checkAllowance(script, read)
    /\ UNCHANGED <<ledgerVars, uiVars>>

ScriptMainAmount ==
    /\ script.pc = "main"
    /\ \E argv \in ScriptArgs : script' = mainAmount(script, argv)
    /\ UNCHANGED <<ledgerVars, uiVars>>

ScriptApproveTokens ==
    /\ script.pc = "approveTokens"
    /\ \E answer \in TxAnswers : script' = approveTokens(script, answer)
    /\ UNCHANGED <<ledgerVars, uiVars>>

ScriptDepositTokens ==
    /\ script.pc = "depositTokens"
    /\ \E answer \in TxAnswers : script' = depositTokens_Script(script, answer)
    /\ UNCHANGED <<ledgerVars, uiVars>>

NextScript ==
    \/ ScriptCheckBalance
    \/ ScriptCheckAirdropBalance
    \/ ScriptCheckAllowance
    \/ ScriptMainAmount
    \/ ScriptApproveTokens
    \/ ScriptDepositTokens

SpecScript == InitUI /\ [][NextScript]_vars

-----------------------------------------------------------------------------
(* Vocabulary of the properties *)

\* the specification's name for each way a call ends
ErrorKind(res) ==
    CASE res \in {"Invalid token address", "Invalid recipient address",
                  "Amount must be greater than 0", "OwnableInvalidOwner"}
            -> "InvalidArgument"
      [] res = "Already claimed for this token" -> "AlreadyClaimed"
      [] res = "Airdrop not active for this token" -> "NotActive"
      [] res = "Airdrop amount not set" -> "AmountUnset"
      [] res \in {"Insufficient tokens in contract", "Insufficient balance"}
            -> "InsufficientFunds"
      [] res \in {"Transfer failed", TokenReverted} -> "TransferFailed"
      [] res = OwnableUnauthorizedAccount -> "Unauthorized"
      [] OTHER -> res

custody(t) == balances[t][Ledger]

\* the last transaction was a call of claimAirdropForToken
LastIsClaim == last.op = "claimAirdropForToken"

\* this step is a claim of t by a that succeeded
ClaimSucceeds(t, a) ==
    /\ last'.op = "claimAirdropForToken"
    /\ last'.res = "Ok"
    /\ amountAtClaim' = [amountAtClaim EXCEPT ![t][a] = tokenConfigs[t].amount]
    /\ paidOut'[t][a] # paidOut[t][a]

-----------------------------------------------------------------------------
(* C1 *)

C1_SecondClaimRejected ==
    \A t \in Tokens, a \in Addrs, x \in XferOutcomes :
        hasClaimed[t][a] =>
            LET out == claimAirdropForToken(World, a, t, x) IN
            /\ ErrorKind(out.res) = "AlreadyClaimed"
            /\ out.w = World
            /\ out.ev = NoEvent

C1_Step ==
    /\ \A t \in Tokens, a \in Addrs :
          /\ hasClaimed[t][a] => hasClaimed'[t][a]
          /\ ClaimSucceeds(t, a) => hasClaimed'[t][a]
    /\ (last'.op = "claimAirdropForToken" /\ ErrorKind(last'.res) = "AlreadyClaimed")
          => UNCHANGED <<tokenConfigs, hasClaimed, balances, paidOut>>

\* C1: once a claim of token T by address A has succeeded, hasClaimed[T][A] is true
\* in every later state, whatever is called in between, and every later
\* claimAirdropForToken(T) by A fails with AlreadyClaimed, transfers nothing and
\* leaves totalClaimed, totalRecipients and custody as they were.
C1_ClaimedForever == []C1_SecondClaimRejected /\ [][C1_Step]_vars

\* a claim has just been turned away as already made
C1_Witness ==
    /\ LastIsClaim
    /\ ErrorKind(last.res) = "AlreadyClaimed"
    /\ \E t \in Tokens, a \in Addrs : hasClaimed[t][a] /\ paidOut[t][a] > 0

-----------------------------------------------------------------------------
(* C2 *)

\* what a claim of t by s that succeeded in this step has done
C2_Effects(t, s) ==
    LET a == tokenConfigs[t].amount IN
    /\ ~hasClaimed[t][s]
    /\ hasClaimed' = [hasClaimed EXCEPT ![t][s] = TRUE]
    /\ tokenConfigs' =
         [tokenConfigs EXCEPT ![t] =
            [amount |-> a, isActive |-> tokenConfigs[t].isActive,
             totalClaimed |-> tokenConfigs[t].totalClaimed + a,
             totalRecipients |-> tokenConfigs[t].totalRecipients + 1]]
    /\ balances' =
         [balances EXCEPT ![t] =
            [h \in Holders |->
                IF h = Ledger THEN balances[t][Ledger] - a
                ELSE IF h = s THEN balances[t][s] + a
                ELSE balances[t][h]]]
    /\ last'.ev = <<"AirdropClaimed", t, s, a>>
    /\ UNCHANGED <<owner, defaultToken, status>>

C2_Step ==
    \A t \in Tokens, s \in Addrs : ClaimSucceeds(t, s) => C2_Effects(t, s)

\* amount 100, active, custody 250, nothing claimed yet: A, A again, B, C
C2_Scenario ==
    \A t \in Tokens, A \in Addrs :
      \A B \in Addrs \ {A} : \A C \in Addrs \ {A, B} :
        ( /\ tokenConfigs[t] = [amount |-> 100, isActive |-> TRUE,
                                totalClaimed |-> 0, totalRecipients |-> 0]
          /\ custody(t) = 250
          /\ \A a \in Addrs : ~hasClaimed[t][a] )
        =>
        LET o1 == claimAirdropForToken(World, A, t, "ok")
            o2 == claimAirdropForToken(o1.w, A, t, "ok")
            o3 == claimAirdropForToken(o2.w, B, t, "ok")
            o4 == claimAirdropForToken(o3.w, C, t, "ok")
        IN  /\ o1.res = "Ok"
            /\ o1.w.bal[t][Ledger] = 150
            /\ o1.w.cfg[t].totalClaimed = 100
            /\ o1.w.cfg[t].totalRecipients = 1
            /\ ErrorKind(o2.res) = "AlreadyClaimed"
            /\ o2.w = o1.w
            /\ o3.res = "Ok"
            /\ o3.w.bal[t][Ledger] = 50
            /\ ErrorKind(o4.res) = "InsufficientFunds"
            /\ o4.w = o3.w
            /\ o4.w.bal[t][Ledger] = 50
            /\ o4.w.cfg[t].totalRecipients = 2

\* C2: a claimAirdropForToken(T) by A that succeeds, with configured amount a, sets
\* hasClaimed[T][A], adds a to totalClaimed(T) and 1 to totalRecipients(T), moves a
\* of T from custody to A and records AirdropClaimed(T, A, a); amount and isActive
\* of T, every other claim record, every other balance and every other token are
\* unchanged.  With amount 100, active, custody 250: A succeeds (custody 150,
\* totalClaimed 100, totalRecipients 1), A again fails AlreadyClaimed, B succeeds
\* (custody 50), C fails InsufficientFunds with custody 50 and totalRecipients 2.
C2_ClaimEffects == []C2_Scenario /\ [][C2_Step]_vars

\* the scenario has been run to its end: two claims of 100 paid out of 250, the
\* third turned away for lack of funds
C2_Witness ==
    /\ LastIsClaim
    /\ ErrorKind(last.res) = "InsufficientFunds"
    /\ tokenConfigs["LUV"] = [amount |-> 100, isActive |-> TRUE,
                              totalClaimed |-> 200, totalRecipients |-> 2]
    /\ custody("LUV") = 50
    /\ paidOut["LUV"]["alice"] = 100 /\ paidOut["LUV"]["bob"] = 100

-----------------------------------------------------------------------------
(* C3 *)

\* a claim of t by s gets as far as the token's transfer
ReachesTransfer(t, s) ==
    /\ ~hasClaimed[t][s]
    /\ tokenConfigs[t].isActive
    /\ tokenConfigs[t].amount > 0
    /\ custody(t) >= tokenConfigs[t].amount
    /\ tokenConfigs[t].totalClaimed + tokenConfigs[t].amount <= MaxUint

\* C3: if the token's transfer called by a claim returns false or raises, the
\* claim fails with TransferFailed, hasClaimed[T][A], totalClaimed(T),
\* totalRecipients(T) and custody are what they were before the call and no
\* AirdropClaimed event is recorded; in no reachable state is a claim record true
\* without its funds having left custody.
C3_TransferFailureRollsBack ==
    /\ \A t \in Tokens, s \in Addrs, x \in XferOutcomes \ {"ok"} :
          ReachesTransfer(t, s) =>
              LET out == claimAirdropForToken(World, s, t, x) IN
              /\ ErrorKind(out.res) = "TransferFailed"
              /\ out.w = World
              /\ out.ev = NoEvent
    /\ \A t \in Tokens, a \in Addrs :
          hasClaimed[t][a] => paidOut[t][a] = amountAtClaim[t][a] /\ paidOut[t][a] > 0
    /\ last.res # "Ok" => last.ev = NoEvent

\* the token has just returned false to a claim on the funded, untouched ledger
C3_Witness ==
    /\ LastIsClaim
    /\ last.res = "Transfer failed"
    /\ last.ev = NoEvent
    /\ custody("LUV") = Supply
    /\ \A t \in Tokens, a \in Addrs : ~hasClaimed[t][a] /\ paidOut[t][a] = 0
    /\ \A t \in Tokens : tokenConfigs[t].totalRecipients = 0

-----------------------------------------------------------------------------
(* C4 *)

\* the error the fixed order of the preconditions gives a claim of t by s, or
\* "none" when all five hold
C4_FirstFailure(t, s) ==
    IF t = NullAddress THEN "InvalidArgument"
    ELSE IF hasClaimed[t][s] THEN "AlreadyClaimed"
    ELSE IF ~tokenConfigs[t].isActive THEN "NotActive"
    ELSE IF tokenConfigs[t].amount = 0 THEN "AmountUnset"
    ELSE IF custody(t) < tokenConfigs[t].amount THEN "InsufficientFunds"
    ELSE "none"

C4_PreconditionErrors ==
    {"InvalidArgument", "AlreadyClaimed", "NotActive", "AmountUnset", "InsufficientFunds"}

\* C4: a failing claim reports the first failing precondition in the order null
\* token, AlreadyClaimed, NotActive, AmountUnset, InsufficientFunds, whichever of
\* them fail together: already claimed on an inactive token is AlreadyClaimed,
\* inactive with amount 0 and empty custody is NotActive, active with amount 0 and
\* empty custody is AmountUnset.
C4_ErrorOrder ==
    /\ \A t \in TokenArgs, s \in Addrs, x \in XferOutcomes :
          LET kind == ErrorKind(claimAirdropForToken(World, s, t, x).res) IN
          IF C4_FirstFailure(t, s) = "none"
          THEN kind \notin C4_PreconditionErrors
          ELSE kind = C4_FirstFailure(t, s)
    /\ \A t \in Tokens, s \in Addrs :
          LET kind == ErrorKind(claimAirdropForToken(World, s, t, "ok").res) IN
          /\ (hasClaimed[t][s] /\ ~tokenConfigs[t].isActive) => kind = "AlreadyClaimed"
          /\ ( /\ ~hasClaimed[t][s] /\ ~tokenConfigs[t].isActive
               /\ tokenConfigs[t].amount = 0 /\ custody(t) = 0 ) => kind = "NotActive"
          /\ ( /\ ~hasClaimed[t][s] /\ tokenConfigs[t].isActive
               /\ tokenConfigs[t].amount = 0 /\ custody(t) = 0 ) => kind = "AmountUnset"

\* a claim has just been turned away as already made, and every token anybody
\* has claimed is inactive by now
C4_Witness ==
    /\ LastIsClaim
    /\ ErrorKind(last.res) = "AlreadyClaimed"
    /\ \A t \in Tokens :
          (\E a \in Addrs : hasClaimed[t][a]) => ~tokenConfigs[t].isActive

-----------------------------------------------------------------------------
(* C5 *)

\* C5: for a claim that passes the token, not-yet-claimed, active and amount > 0
\* checks, the claim fails with InsufficientFunds if and only if custody of the
\* token is less than the configured amount when it is called; with custody equal
\* to the amount the balance check passes, and the claim, its transfer accepted,
\* succeeds and leaves custody 0.
C5_InsufficientIffBelowAmount ==
    \A t \in Tokens, s \in Addrs, x \in XferOutcomes :
        (~hasClaimed[t][s] /\ tokenConfigs[t].isActive /\ tokenConfigs[t].amount > 0)
        =>
        LET out == claimAirdropForToken(World, s, t, x) IN
        /\ ErrorKind(out.res) = "InsufficientFunds"
              <=> custody(t) < tokenConfigs[t].amount
        /\ ( /\ custody(t) = tokenConfigs[t].amount
             /\ x = "ok"
             /\ tokenConfigs[t].totalClaimed + tokenConfigs[t].amount <= MaxUint )
              => (out.res = "Ok" /\ out.w.bal[t][Ledger] = 0)

\* a claim has just succeeded and emptied the custody of its token
C5_Witness ==
    /\ LastIsClaim
    /\ last.res = "Ok"
    /\ last.ev[1] = "AirdropClaimed"
    /\ custody(last.ev[2]) = 0
    /\ paidOut[last.ev[2]][last.ev[3]] = last.ev[4]
    /\ last.ev[4] > 0

-----------------------------------------------------------------------------
(* C6 *)

Claimants(t) == {a \in Addrs : hasClaimed[t][a]}

\* C6: in every reachable state and for every token T, totalRecipients(T) is the
\* number of addresses A with hasClaimed[T][A] true.
C6_RecipientsCountClaimants ==
    \A t \in Tokens : tokenConfigs[t].totalRecipients = Cardinality(Claimants(t))

\* two addresses have claimed the same token
C6_Witness ==
    \E t \in Tokens :
        Cardinality(Claimants(t)) = 2 /\ tokenConfigs[t].totalRecipients = 2

-----------------------------------------------------------------------------
(* C7 *)

RECURSIVE SumOver(_, _)
SumOver(f, S) ==
    IF S = {} THEN 0
    ELSE LET a == CHOOSE v \in S : TRUE IN f[a] + SumOver(f, S \ {a})

\* C7: in every reachable state and for every token T, totalClaimed(T) is the sum,
\* over the claims of T that succeeded, of the amount configured when each was
\* made, which is also what those claims paid out of custody; it is not the
\* number of claims times the current amount once the amount has changed.
C7_TotalClaimedIsHistoricalSum ==
    \A t \in Tokens :
        /\ tokenConfigs[t].totalClaimed = SumOver(amountAtClaim[t], Addrs)
        /\ tokenConfigs[t].totalClaimed = SumOver(paidOut[t], Addrs)

\* two claims of a token were made at different amounts
C7_Witness ==
    \E t \in Tokens : \E a \in Claimants(t), b \in Claimants(t) :
        /\ amountAtClaim[t][a] # amountAtClaim[t][b]
        /\ tokenConfigs[t].totalClaimed = amountAtClaim[t][a] + amountAtClaim[t][b]
        /\ tokenConfigs[t].totalClaimed
              # tokenConfigs[t].totalRecipients * tokenConfigs[t].amount

-----------------------------------------------------------------------------
(* C8 *)

AnyAmount == MoveAmounts
AnyRecipient == {"alice", NullAddress}

\* the call was turned away as unauthorized and did nothing
C8_TurnedAway(out) ==
    /\ ErrorKind(out.res) = "Unauthorized"
    /\ out.w = World
    /\ out.ev = NoEvent

\* every onlyOwner function turns every caller but the owner away
C8_Rejected ==
    \A s \in Addrs \ {owner} :
        /\ \A t \in TokenArgs, a \in AnyAmount, f \in BOOLEAN :
              C8_TurnedAway(setAirdropConfig(World, s, t, a, f))
        /\ \A a \in AnyAmount : C8_TurnedAway(setAirdropAmount(World, s, a))
        /\ \A t \in TokenArgs, a \in AnyAmount, x \in XferOutcomes :
              /\ C8_TurnedAway(depositTokens(World, s, t, a, x))
              /\ C8_TurnedAway(withdrawTokens(World, s, t, a, x))
        /\ \A a \in AnyAmount, x \in XferOutcomes :
              /\ C8_TurnedAway(depositTokensDefault(World, s, a, x))
              /\ C8_TurnedAway(withdrawTokensDefault(World, s, a, x))
        /\ \A t \in TokenArgs, x \in XferOutcomes :
              C8_TurnedAway(emergencyWithdraw(World, s, t, x))
        /\ \A x \in XferOutcomes : C8_TurnedAway(emergencyWithdrawDefault(World, s, x))
        /\ \A t \in TokenArgs, to \in AnyRecipient, x \in XferOutcomes :
              /\ C8_TurnedAway(rescueAllTokens(World, s, t, to, x))
              /\ \A a \in AnyAmount : C8_TurnedAway(rescueTokens(World, s, t, to, a, x))

\* C8: for every caller other than the owner, setAirdropConfig, setAirdropAmount,
\* both depositTokens, both withdrawTokens, both emergencyWithdraw, rescueTokens
\* and rescueAllTokens fail with Unauthorized whatever their arguments, null token,
\* null recipient and zero amount included, and leave tokenConfigs, hasClaimed and
\* every token balance unchanged.
C8_NonOwnerTurnedAway == []C8_Rejected

\* an onlyOwner function has just turned its caller away, on the funded ledger
\* nobody has touched
C8_Witness ==
    /\ last.op = "admin"
    /\ ErrorKind(last.res) = "Unauthorized"
    /\ owner = Deployer
    /\ custody("LUV") = Supply
    /\ nTx = 1

-----------------------------------------------------------------------------
(* C9 *)

\* C9 as claimed: the owner is the deployer, and the default token the one given
\* to the constructor, in every reachable state.
C9_OwnerNeverChanges == owner = Deployer /\ defaultToken = "LUV"

\* no function the ledger declares changes the owner, whoever calls it
C9_LedgerKeepsOwner ==
    \A s \in Addrs :
        /\ \A c \in ClaimCalls :
              claimAirdropForToken(World, s, c[2], c[3]).w.owner = owner
        /\ \A x \in XferOutcomes :
              /\ claimAirdrop(World, s, x).w.owner = owner
              /\ emergencyWithdrawDefault(World, s, x).w.owner = owner
        /\ \A c \in ConfigCalls :
              setAirdropConfig(World, s, c[1], c[2], c[3]).w.owner = owner
        /\ \A a \in Amounts : setAirdropAmount(World, s, a).w.owner = owner
        /\ \A c \in MoveCalls :
              /\ depositTokens(World, s, c[1], c[2], c[3]).w.owner = owner
              /\ withdrawTokens(World, s, c[1], c[2], c[3]).w.owner = owner
              /\ depositTokensDefault(World, s, c[2], c[3]).w.owner = owner
              /\ withdrawTokensDefault(World, s, c[2], c[3]).w.owner = owner
        /\ \A c \in SweepCalls : emergencyWithdraw(World, s, c[1], c[2]).w.owner = owner
        /\ \A c \in RescueCalls :
              rescueTokens(World, s, c[1], c[2], c[3], c[4]).w.owner = owner
        /\ \A c \in RescueAllCalls :
              rescueAllTokens(World, s, c[1], c[2], c[3]).w.owner = owner

\* nobody but the owner hands the ownership over or gives it up
C9_OnlyOwnerHandsOver ==
    \A s \in Addrs \ {owner} :
        /\ renounceOwnership(World, s).w = World
        /\ \A n \in Addrs \cup {NullAddress} : transferOwnership(World, s, n).w = World

\* the owner changes only in a transaction that records OwnershipTransferred
C9_Step ==
    /\ defaultToken' = defaultToken
    /\ owner' # owner =>
          /\ last'.op = "admin"
          /\ last'.res = "Ok"
          /\ last'.ev = <<"OwnershipTransferred", owner, owner'>>

\* C9 (amended): the owner is the deployer when the constructor returns; after
\* that the only operations that change or remove it are the transferOwnership and
\* renounceOwnership the ledger inherits from its access-control base, and only
\* when the current owner calls them; no function the ledger declares changes
\* it, and the default token never changes.
C9_OwnerChangesOnlyByHandover ==
    /\ owner = Deployer
    /\ [](C9_LedgerKeepsOwner /\ C9_OnlyOwnerHandsOver)
    /\ [][C9_Step]_vars

\* the deployer has handed the ownership over to alice
C9_Witness ==
    /\ owner = "alice"
    /\ last.ev = <<"OwnershipTransferred", Deployer, "alice">>

-----------------------------------------------------------------------------
(* C10 *)

\* C10: claimAirdrop() called by A has, in every state, the outcome and the
\* effects on claim record, totals, custody and events of
\* claimAirdropForToken(defaultToken) called by A; it succeeds whenever that would.
C10_ClaimAirdropIsSugar ==
    \A s \in Addrs, x \in XferOutcomes :
        LET sugar == claimAirdrop(World, s, x)
            plain == claimAirdropForToken(World, s, defaultToken, x)
        IN  /\ sugar.res = plain.res
            /\ sugar.w = plain.w
            /\ sugar.ev = plain.ev

-----------------------------------------------------------------------------
(* C11 *)

\* C11 as claimed: a claim of t by s issued from inside the transfer of a claim
\* of t by s that is in progress is rejected as AlreadyClaimed.
C11_ReentrantClaimAlreadyClaimed ==
    \A t \in Tokens, s \in Addrs :
        ReachesTransfer(t, s) =>
            \A m \in TransferPoints(World, s, t), x \in XferOutcomes :
                ErrorKind(claimAirdropForToken(m, s, t, x).res) = "AlreadyClaimed"

\* C11 (amended): a claim of T by A issued from inside the token's transfer of a
\* claim of T by A that is in progress is rejected: the re-entrancy guard turns it
\* away with its own error, not AlreadyClaimed, before the claim record is read,
\* and it changes nothing; the claim record is already set at that point.  If the
\* token passes that error up, the claim in progress fails with it and leaves no
\* trace.
C11_ReentrantClaimRejected ==
    /\ \A t \in Tokens, s \in Addrs :
          ReachesTransfer(t, s) =>
              /\ \A m \in TransferPoints(World, s, t), x \in XferOutcomes :
                    LET inner == claimAirdropForToken(m, s, t, x) IN
                    /\ hasUserClaimed(m, t, s)
                    /\ inner.res = ReentrantCall
                    /\ inner.w = m
                    /\ inner.ev = NoEvent
              /\ LET outer == claimAirdropForToken(World, s, t, "reenter") IN
                    /\ outer.res = ReentrantCall
                    /\ outer.w = World
                    /\ outer.ev = NoEvent
    /\ (LastIsClaim /\ last.res = ReentrantCall) => last.ev = NoEvent

\* a claim has just failed because the claimant claimed again from inside its
\* transfer; nobody has been paid
C11_Witness ==
    /\ LastIsClaim
    /\ last.res = ReentrantCall
    /\ custody("LUV") = Supply
    /\ \A t \in Tokens, a \in Addrs : ~hasClaimed[t][a] /\ paidOut[t][a] = 0

-----------------------------------------------------------------------------
(* C12 *)

\* what a query made by an observer shows of a claim of t by s
C12_View(w, t, s) == <<hasUserClaimed(w, t, s), getAirdropStats(w, t)>>

\* C12: at most one claim per (token, claimant) succeeds and pays out, also when
\* claims are made from inside the token's transfer, and a query made from inside
\* the transfer of a claim in progress (hasUserClaimed, getAirdropStats) shows
\* either the values of claim record, totalClaimed, totalRecipients and custody
\* before the claim or their values after it, never a mixture.
C12_ClaimsAtomic ==
    /\ \A t \in Tokens, a \in Addrs : paidOut[t][a] \in {0, amountAtClaim[t][a]}
    /\ \A t \in Tokens, s \in Addrs :
          ReachesTransfer(t, s) =>
              /\ claimAirdropForToken(World, s, t, "reenter").res # "Ok"
              /\ \A m \in TransferPoints(World, s, t) :
                    C12_View(m, t, s) \in
                        {C12_View(World, t, s),
                         C12_View(claimAirdropForToken(World, s, t, "ok").w, t, s)}

-----------------------------------------------------------------------------
(* C13 *)

C13_FailedClaimNoTrace ==
    /\ \A c \in ClaimCalls :
          LET out == claimAirdropForToken(World, c[1], c[2], c[3]) IN
          out.res # "Ok" =>
              /\ out.w = World
              /\ out.ev = NoEvent
              /\ c[2] # NullAddress =>
                    (hasUserClaimed(out.w, c[2], c[1])
                        <=> ErrorKind(out.res) = "AlreadyClaimed")
    /\ \A s \in Addrs, x \in XferOutcomes :
          LET out == claimAirdrop(World, s, x) IN
          out.res # "Ok" => (out.w = World /\ out.ev = NoEvent)

\* a claim of t by s made after the owner's transaction fixed succeeds and pays a
C13_RetrySucceeds(fixed, t, s, a) ==
    /\ fixed.res = "Ok"
    /\ LET retry == claimAirdropForToken(fixed.w, s, t, "ok") IN
          /\ retry.res = "Ok"
          /\ hasUserClaimed(retry.w, t, s)
          /\ retry.w.bal[t][s] = fixed.w.bal[t][s] + a

\* once the owner has fixed what made a claim fail, the claim succeeds
C13_Retry ==
    \A t \in Tokens, s \in Addrs :
        LET kind == ErrorKind(claimAirdropForToken(World, s, t, "ok").res) IN
        /\ kind \in {"NotActive", "AmountUnset"} =>
              \A a \in Amounts \ {0} :
                  ( /\ owner \in Addrs
                    /\ custody(t) >= a
                    /\ tokenConfigs[t].totalClaimed + a <= MaxUint )
                  => C13_RetrySucceeds(setAirdropConfig(World, owner, t, a, TRUE), t, s, a)
        /\ kind = "InsufficientFunds" =>
              \A d \in MoveAmounts \ {0} :
                  ( /\ owner \in Addrs
                    /\ balances[t][owner] >= d
                    /\ custody(t) + d >= tokenConfigs[t].amount
                    /\ tokenConfigs[t].totalClaimed + tokenConfigs[t].amount <= MaxUint )
                  => C13_RetrySucceeds(depositTokens(World, owner, t, d, "ok"), t, s,
                                       tokenConfigs[t].amount)

\* a transaction of a claim that fails changes nothing but the receipt
C13_Step ==
    (last'.op \in {"claimAirdrop", "claimAirdropForToken"} /\ last'.res # "Ok")
        => UNCHANGED <<owner, defaultToken, tokenConfigs, hasClaimed, status, balances,
                       amountAtClaim, paidOut>>

-----------------------------------------------------------------------------
(* C14 *)

\* what setAirdropConfig(t, a, f) called by the owner returns
C14_Outcome ==
    \A t \in Tokens, a \in Amounts, f \in BOOLEAN :
        owner \in Addrs =>
            LET out == setAirdropConfig(World, owner, t, a, f) IN
            /\ out.res = "Ok"
            /\ out.ev = <<"AirdropConfigUpdated", t, tokenConfigs[t].amount, a, f>>
            /\ out.w.cfg[t] =
                  [amount |-> a, isActive |-> f,
                   totalClaimed |-> tokenConfigs[t].totalClaimed,
                   totalRecipients |-> tokenConfigs[t].totalRecipients]
            /\ \A u \in Tokens \ {t} : out.w.cfg[u] = tokenConfigs[u]
            /\ out.w.claimed = hasClaimed
            /\ out.w.bal = balances
            /\ out.w.owner = owner
            /\ out.w.status = status

\* a transaction that records AirdropConfigUpdated(t, old, a, f) has done that
\* and nothing else
C14_Step ==
    (last'.res = "Ok" /\ last'.ev # NoEvent /\ last'.ev[1] = "AirdropConfigUpdated")
    => LET t == last'.ev[2] IN
       /\ last'.ev[3] = tokenConfigs[t].amount
       /\ tokenConfigs' = [tokenConfigs EXCEPT ![t].amount = last'.ev[4],
                                              ![t].isActive = last'.ev[5]]
       /\ UNCHANGED <<owner, defaultToken, hasClaimed, status, balances,
                      amountAtClaim, paidOut>>

\* C14: setAirdropConfig(T, a, f) called by the owner with a non-null T succeeds
\* for every a, 0 included, and every f, true with a = 0 included; it sets
\* amount(T) = a and isActive(T) = f, records AirdropConfigUpdated(T, previous
\* amount, a, f) and leaves totalClaimed(T), totalRecipients(T), the other tokens'
\* configurations, every claim record and every balance unchanged.
C14_SetConfigOverwrites == []C14_Outcome /\ [][C14_Step]_vars

\* the owner has just set the amount of the default token to 0, active, after
\* somebody claimed it: the totals still count that claim
C14_Witness ==
    /\ last.op = "admin"
    /\ last.ev = <<"AirdropConfigUpdated", "LUV", DefaultAirdropAmount, 0, TRUE>>
    /\ tokenConfigs["LUV"] = [amount |-> 0, isActive |-> TRUE,
                              totalClaimed |-> DefaultAirdropAmount,
                              totalRecipients |-> 1]
    /\ \E a \in Addrs : hasClaimed["LUV"][a] /\ paidOut["LUV"][a] = DefaultAirdropAmount

-----------------------------------------------------------------------------
(* C15 *)

\* the configuration setAirdropConfig(t, 0, true) leaves, until it is changed
C15_ZeroAmountActive(w, t) == w.cfg[t].amount = 0 /\ w.cfg[t].isActive

\* C15 as claimed: while the configuration of t is the one setAirdropConfig(t, 0,
\* true) left, every claim of t fails with AmountUnset.
C15_EveryClaimAmountUnset ==
    \A t \in Tokens, s \in Addrs, x \in XferOutcomes :
        C15_ZeroAmountActive(World, t) =>
            ErrorKind(claimAirdropForToken(World, s, t, x).res) = "AmountUnset"

\* C15 (amended): after the owner has called setAirdropConfig(T, 0, true), and
\* until the configuration of T is changed again, every claimAirdropForToken(T)
\* by an address that has not claimed T fails with AmountUnset, whatever the
\* custody of T, and changes nothing; an address that has claimed T fails with
\* AlreadyClaimed, the earlier check.
C15_ZeroAmountRefusesClaims ==
    /\ \A t \in Tokens, s \in Addrs, x \in XferOutcomes \cup {"reenter"} :
          C15_ZeroAmountActive(World, t) =>
              LET out == claimAirdropForToken(World, s, t, x) IN
              /\ ErrorKind(out.res) =
                    IF hasClaimed[t][s] THEN "AlreadyClaimed" ELSE "AmountUnset"
              /\ out.w = World
              /\ out.ev = NoEvent
    /\ \A t \in Tokens :
          owner \in Addrs =>
              LET set == setAirdropConfig(World, owner, t, 0, TRUE) IN
              /\ set.res = "Ok"
              /\ C15_ZeroAmountActive(set.w, t)
              /\ \A s \in Addrs :
                    ErrorKind(claimAirdropForToken(set.w, s, t, "ok").res) =
                        IF hasClaimed[t][s] THEN "AlreadyClaimed" ELSE "AmountUnset"

\* the amount of the default token was set to 0, active, on the funded ledger,
\* and a claim has just been turned away for it
C15_Witness ==
    /\ LastIsClaim
    /\ ErrorKind(last.res) = "AmountUnset"
    /\ C15_ZeroAmountActive(World, "LUV")
    /\ custody("LUV") = Supply
    /\ \A a \in Addrs : ~hasClaimed["LUV"][a]

-----------------------------------------------------------------------------
(* C16 *)

C16_ClaimsAfterReactivation(w, t, a) ==
    \A s \in Addrs :
        LET out == claimAirdropForToken(w, s, t, "ok") IN
        IF hasClaimed[t][s]
        THEN ErrorKind(out.res) = "AlreadyClaimed" /\ out.w = w
        ELSE (custody(t) >= a /\ tokenConfigs[t].totalClaimed + a <= MaxUint)
                => /\ out.res = "Ok"
                   /\ out.w.bal[t][s] = balances[t][s] + a
                   /\ hasUserClaimed(out.w, t, s)

\* the owner switches each token off and on again; without an owner nobody does
C16_Reconfigurable ==
    \A t \in Tokens :
        IF owner \in Addrs
        THEN \A a \in Amounts, b \in Amounts \ {0} :
                LET off == setAirdropConfig(World, owner, t, a, FALSE)
                    on == setAirdropConfig(off.w, owner, t, b, TRUE)
                IN  /\ off.res = "Ok" /\ ~isAirdropActive(off.w, t)
                    /\ \A s \in Addrs :
                          ~hasClaimed[t][s] =>
                              ErrorKind(claimAirdropForToken(off.w, s, t, "ok").res)
                                  = "NotActive"
                    /\ on.res = "Ok" /\ isAirdropActive(on.w, t)
                    /\ on.w.cfg[t].amount = b
                    /\ on.w.claimed = hasClaimed
                    /\ C16_ClaimsAfterReactivation(on.w, t, b)
        ELSE \A s \in Addrs, a \in Amounts, f \in BOOLEAN :
                setAirdropConfig(World, s, t, a, f).res # "Ok"

-----------------------------------------------------------------------------
(* C17 *)

\* the fields neither a deposit nor a withdrawal may touch
C17_LedgerState(w) == <<w.cfg, w.claimed, w.owner, w.status>>

\* C17: for every token T and X > 0, a depositTokens(T, X) by the owner that
\* succeeds, followed by withdrawTokens(T, X) by the owner, its transfer accepted,
\* succeeds too and returns the custody of T and the owner's balance of T to what
\* they were before the deposit; neither call changes totalClaimed,
\* totalRecipients, the configuration or a claim record.  The same holds of the
\* overloads for the default token.
C17_DepositWithdrawRoundTrip ==
    /\ \A t \in Tokens, X \in MoveAmounts \ {0} :
          LET dep == depositTokens(World, owner, t, X, "ok")
              wd == withdrawTokens(dep.w, owner, t, X, "ok")
          IN  (owner \in Addrs /\ dep.res = "Ok") =>
                  /\ dep.w.bal[t][Ledger] = custody(t) + X
                  /\ C17_LedgerState(dep.w) = C17_LedgerState(World)
                  /\ wd.res = "Ok"
                  /\ wd.w.bal = balances
                  /\ C17_LedgerState(wd.w) = C17_LedgerState(World)
    /\ \A X \in MoveAmounts \ {0} :
          LET dep == depositTokensDefault(World, owner, X, "ok")
              wd == withdrawTokensDefault(dep.w, owner, X, "ok")
          IN  (owner \in Addrs /\ dep.res = "Ok") =>
                  /\ C17_LedgerState(dep.w) = C17_LedgerState(World)
                  /\ wd.res = "Ok"
                  /\ wd.w = World

\* the owner has paid the amount in to the empty ledger and has just taken it
\* out again: custody and the owner's balance are what they were at the start
C17_Witness ==
    /\ nTx = 2
    /\ last.op = "admin"
    /\ last.ev = <<"TokensWithdrawn", "LUV", Deployer, DefaultAirdropAmount>>
    /\ custody("LUV") = 0
    /\ balances["LUV"][Deployer] = Supply
    /\ tokenConfigs["LUV"].totalClaimed = 0

-----------------------------------------------------------------------------
(* C18 *)

\* the call failed as kind and did nothing
C18_Fails(out, kind) ==
    /\ ErrorKind(out.res) = kind
    /\ out.w = World
    /\ out.ev = NoEvent

\* the call pulled x of t from the owner into custody and did nothing else
C18_Pulls(out, t, x) ==
    /\ out.res = "Ok"
    /\ out.ev = <<"TokensDeposited", t, owner, x>>
    /\ out.w.bal = [balances EXCEPT ![t][Ledger] = @ + x, ![t][owner] = @ - x]
    /\ C17_LedgerState(out.w) = C17_LedgerState(World)

\* what depositTokens(t, x) called by the owner must return when the token
\* answers the pull with xf
C18_Expected(out, t, x, xf) ==
    IF t = NullAddress \/ x = 0 THEN C18_Fails(out, "InvalidArgument")
    ELSE IF xf # "ok" \/ balances[t][owner] < x THEN C18_Fails(out, "TransferFailed")
    ELSE C18_Pulls(out, t, x)

\* a transaction that records TokensDeposited(t, from, x) has moved x of t from
\* the owner to the ledger and nothing else
C18_Step ==
    (last'.res = "Ok" /\ last'.ev # NoEvent /\ last'.ev[1] = "TokensDeposited")
    => LET t == last'.ev[2]
           x == last'.ev[4]
       IN  /\ last'.ev[3] = owner
           /\ x > 0
           /\ balances' = [balances EXCEPT ![t][Ledger] = @ + x, ![t][owner] = @ - x]
           /\ UNCHANGED <<owner, defaultToken, tokenConfigs, hasClaimed, status,
                          amountAtClaim, paidOut>>

\* C18: depositTokens(T, x) called by the owner fails with no effect when x = 0 or
\* T is null; when the token's transferFrom returns false or raises it fails with
\* TransferFailed, leaves custody unchanged and records no TokensDeposited; when
\* it succeeds, custody of T has grown by exactly x, taken from the owner, and the
\* configuration, the totals and the claim records are unchanged.  The overload
\* for the default token does the same.
C18_DepositOutcomes ==
    /\ [](owner \in Addrs =>
            /\ \A t \in TokenArgs, x \in MoveAmounts, xf \in XferOutcomes :
                  C18_Expected(depositTokens(World, owner, t, x, xf), t, x, xf)
            /\ \A x \in MoveAmounts, xf \in XferOutcomes :
                  C18_Expected(depositTokensDefault(World, owner, x, xf),
                               defaultToken, x, xf))
    /\ [][C18_Step]_vars

\* the token has just returned false to the owner's deposit on the ledger nobody
\* has paid in to: nothing has moved
C18_Witness ==
    /\ nTx = 1
    /\ last.op = "admin"
    /\ last.res = "Transfer failed"
    /\ last.ev = NoEvent
    /\ \A t \in Tokens : custody(t) = 0 /\ balances[t][Deployer] = Supply

-----------------------------------------------------------------------------
(* C19 *)

\* what withdrawTokens(t, x) called by the owner may return
C19_Expected(out, t, x) ==
    /\ out.res = "Ok" => x > 0 /\ t \in Tokens /\ x <= custody(t)
    /\ x = 0 => ErrorKind(out.res) = "InvalidArgument"
    /\ (t \in Tokens /\ x > custody(t)) => ErrorKind(out.res) = "InsufficientFunds"
    /\ out.res # "Ok" => out.w = World /\ out.ev = NoEvent
    /\ out.res = "Ok" =>
          /\ out.w.bal = [balances EXCEPT ![t][Ledger] = @ - x, ![t][owner] = @ + x]
          /\ out.w.bal[t][Ledger] = custody(t) - x
          /\ C17_LedgerState(out.w) = C17_LedgerState(World)
          /\ out.ev = <<"TokensWithdrawn", t, owner, x>>

\* C19: withdrawTokens(T, x) called by the owner succeeds only if x > 0 and
\* x <= custody of T; for x = 0 it fails with InvalidArgument and for
\* x > custody with InsufficientFunds, and a failure changes nothing; on success
\* custody of T is down by exactly x, the owner's balance is up by x, and the
\* configuration, the totals and the claim records are as before.  The overload
\* for the default token does the same.
C19_WithdrawOutcomes ==
    owner \in Addrs =>
        /\ \A t \in TokenArgs, x \in MoveAmounts, xf \in XferOutcomes :
              C19_Expected(withdrawTokens(World, owner, t, x, xf), t, x)
        /\ \A x \in MoveAmounts, xf \in XferOutcomes :
              C19_Expected(withdrawTokensDefault(World, owner, x, xf), defaultToken, x)

\* the owner has just withdrawn 100 of the funded ledger's tokens
C19_Witness ==
    /\ nTx = 1
    /\ last.res = "Ok"
    /\ last.ev = <<"TokensWithdrawn", "LUV", Deployer, DefaultAirdropAmount>>
    /\ custody("LUV") = Supply - DefaultAirdropAmount
    /\ balances["LUV"][Deployer] = DefaultAirdropAmount

-----------------------------------------------------------------------------
(* C20 *)

\* what emergencyWithdraw(t) called by the owner must return when the token
\* answers the transfer, if one is made, with xf
C20_Expected(out, t, xf) ==
    IF custody(t) = 0
    THEN /\ out.res = "Ok"
         /\ out.ev = NoEvent
         /\ out.w = World
    ELSE IF xf = "ok"
    THEN /\ out.res = "Ok"
         /\ out.ev = <<"EmergencyWithdraw", t, owner, custody(t)>>
         /\ out.w.bal = [balances EXCEPT ![t][Ledger] = 0, ![t][owner] = @ + custody(t)]
         /\ C17_LedgerState(out.w) = C17_LedgerState(World)
         /\ out.w.cfg[t].isActive = tokenConfigs[t].isActive
    ELSE /\ ErrorKind(out.res) = "TransferFailed"
         /\ out.ev = NoEvent
         /\ out.w = World

\* a transaction that records EmergencyWithdraw(t, to, x) has moved all x > 0 of
\* the ledger's t to the owner and touched nothing else
C20_Step ==
    (last'.res = "Ok" /\ last'.ev # NoEvent /\ last'.ev[1] = "EmergencyWithdraw")
    => LET t == last'.ev[2] IN
       /\ last'.ev[3] = owner
       /\ last'.ev[4] = custody(t)
       /\ custody(t) > 0
       /\ balances' = [balances EXCEPT ![t][Ledger] = 0, ![t][owner] = @ + custody(t)]
       /\ UNCHANGED <<owner, defaultToken, tokenConfigs, hasClaimed, status,
                      amountAtClaim, paidOut>>

\* C20: emergencyWithdraw(T) called by the owner, the token accepting the
\* transfer, moves the whole custodial balance of T to the owner, leaves custody
\* 0 and records one EmergencyWithdraw carrying that balance; when custody is 0
\* it succeeds whatever the token would answer, records no event and changes
\* nothing; in both cases the configuration with isActive, the totals and the
\* claim records are unchanged.  The overload for the default token does the same.
C20_EmergencyWithdrawOutcomes ==
    /\ [](owner \in Addrs =>
            /\ \A t \in Tokens, xf \in XferOutcomes :
                  C20_Expected(emergencyWithdraw(World, owner, t, xf), t, xf)
            /\ defaultToken \in Tokens =>
                  \A xf \in XferOutcomes :
                     C20_Expected(emergencyWithdrawDefault(World, owner, xf),
                                  defaultToken, xf))
    /\ [][C20_Step]_vars

\* the owner has just swept the funded ledger, whose airdrop stays active
C20_Witness ==
    /\ last.res = "Ok"
    /\ last.ev = <<"EmergencyWithdraw", "LUV", Deployer, Supply>>
    /\ custody("LUV") = 0
    /\ balances["LUV"][Deployer] = Supply
    /\ tokenConfigs["LUV"].isActive
    /\ tokenConfigs["LUV"].totalClaimed = 0

-----------------------------------------------------------------------------
(* C21 *)

\* recipients the owner rescues to
C21_Recipients == {"alice", "owner", Ledger, NullAddress}

\* rescue is what send (withdrawTokens or emergencyWithdraw with the same
\* arguments) is, with `to` for the owner and TokensRescued for the event
C21_LikeSend(rescue, send, t, to) ==
    IF to = NullAddress
    THEN /\ ErrorKind(rescue.res) = "InvalidArgument"
         /\ rescue.w = World
         /\ rescue.ev = NoEvent
    ELSE /\ rescue.res = send.res
         /\ C17_LedgerState(rescue.w) = C17_LedgerState(World)
         /\ (to = owner) => rescue.w = send.w
         /\ IF send.ev = NoEvent
            THEN rescue.ev = NoEvent /\ rescue.w = World
            ELSE /\ rescue.ev = <<"TokensRescued", t, to, send.ev[4]>>
                 /\ rescue.w.bal = MoveTokens(balances, t, Ledger, to, send.ev[4])

\* after the owner has rescued all of t, t being active: custody 0, still active
C21_Drained(w, t) ==
    /\ w.bal[t][Ledger] = 0
    /\ w.cfg[t] = tokenConfigs[t]
    /\ w.cfg[t].isActive

C21_Outcome ==
    owner \in Addrs =>
        /\ \A t \in TokenArgs, to \in C21_Recipients, x \in MoveAmounts,
              xf \in XferOutcomes :
              C21_LikeSend(rescueTokens(World, owner, t, to, x, xf),
                           withdrawTokens(World, owner, t, x, xf), t, to)
        /\ \A t \in TokenArgs, to \in C21_Recipients, xf \in XferOutcomes :
              C21_LikeSend(rescueAllTokens(World, owner, t, to, xf),
                           emergencyWithdraw(World, owner, t, xf), t, to)
        /\ \A t \in Tokens, to \in Addrs, s \in Addrs, xf \in XferOutcomes :
              (tokenConfigs[t].isActive /\ ~hasClaimed[t][s]) =>
                  LET drained == rescueAllTokens(World, owner, t, to, "ok")
                      claim == claimAirdropForToken(drained.w, s, t, xf)
                  IN  /\ drained.res = "Ok"
                      /\ C21_Drained(drained.w, t)
                      /\ claim.w = drained.w
                      /\ ErrorKind(claim.res) =
                            IF tokenConfigs[t].amount > 0 THEN "InsufficientFunds"
                            ELSE "AmountUnset"

\* a transaction that records TokensRescued(t, to, x) has moved x > 0 of the
\* ledger's t to `to`, not null, and touched nothing else
C21_Step ==
    (last'.res = "Ok" /\ last'.ev # NoEvent /\ last'.ev[1] = "TokensRescued")
    => LET t == last'.ev[2]
           to == last'.ev[3]
           x == last'.ev[4]
       IN  /\ to # NullAddress
           /\ x > 0 /\ x <= custody(t)
           /\ balances' = MoveTokens(balances, t, Ledger, to, x)
           /\ UNCHANGED <<owner, defaultToken, tokenConfigs, hasClaimed, status,
                          amountAtClaim, paidOut>>

-----------------------------------------------------------------------------
(* C22 *)

\* the places of the log that hold an AirdropClaimed of t by a
C22_ClaimEvents(t, a) ==
    {i \in 1..Len(events) :
        /\ events[i][1] = "AirdropClaimed"
        /\ events[i][2] = t
        /\ events[i][3] = a}

\* the log holds one AirdropClaimed(t, a, x) for each claim that succeeded, x being
\* what left custody in it, and none for any other pair
C22_OncePerClaim ==
    \A t \in Tokens, a \in Addrs :
        IF hasClaimed[t][a]
        THEN \E i \in 1..Len(events) :
                /\ C22_ClaimEvents(t, a) = {i}
                /\ events[i][4] = paidOut[t][a]
                /\ paidOut[t][a] > 0
        ELSE C22_ClaimEvents(t, a) = {}

\* the event of its kind that each function records when it succeeds, and none
\* when it fails
C22_Emits(out, kind) ==
    IF out.res = "Ok"
    THEN out.ev # NoEvent /\ out.ev[1] = kind
    ELSE out.ev = NoEvent

C22_KindPerOperation ==
    owner \in Addrs =>
        \A t \in Tokens, xf \in {"ok", "false"} :
            /\ C22_Emits(claimAirdropForToken(World, "bob", t, xf), "AirdropClaimed")
            /\ C22_Emits(setAirdropConfig(World, owner, t, 0, TRUE), "AirdropConfigUpdated")
            /\ C22_Emits(setAirdropAmount(World, owner, 150), "AirdropConfigUpdated")
            /\ C22_Emits(depositTokens(World, owner, t, DefaultAirdropAmount, xf),
                         "TokensDeposited")
            /\ C22_Emits(withdrawTokens(World, owner, t, DefaultAirdropAmount, xf),
                         "TokensWithdrawn")
            /\ C22_Emits(rescueTokens(World, owner, t, "alice", DefaultAirdropAmount, xf),
                         "TokensRescued")
            /\ custody(t) > 0 =>
                  /\ C22_Emits(emergencyWithdraw(World, owner, t, xf), "EmergencyWithdraw")
                  /\ C22_Emits(rescueAllTokens(World, owner, t, "alice", xf),
                               "TokensRescued")

\* what one transaction does to the log
C22_Step ==
    /\ \/ events' = events /\ last'.ev = NoEvent
       \/ events' = Append(events, last'.ev) /\ last'.ev # NoEvent
    /\ last'.res # "Ok" => events' = events
    /\ (last'.op = "claimAirdropForToken" /\ last'.res = "Ok") =>
          \E t \in Tokens, a \in Addrs :
             /\ custody(t) - balances'[t][Ledger] = balances'[t][a] - balances[t][a]
             /\ events' = Append(events,
                    <<"AirdropClaimed", t, a, custody(t) - balances'[t][Ledger]>>)
    /\ (last'.res = "Ok" /\ (balances' # balances \/ tokenConfigs' # tokenConfigs)) =>
          Len(events') = Len(events) + 1

\* C22: the event log only grows, by the event of each transaction as it
\* completes.  It holds exactly one AirdropClaimed(token, claimant, amount) for
\* each claim that succeeded, appended by the transaction whose transfer
\* succeeded and carrying the amount that left custody; a transaction that fails
\* appends nothing; each deposit, withdrawal, rescue, emergency withdrawal of a
\* non-empty custody and configuration change that succeeds appends exactly one
\* event, of its kind.
C22_EventLog == [](C22_OncePerClaim /\ C22_KindPerOperation) /\ [][C22_Step]_vars

\* three transactions: a deposit, one that failed, alice's claim; two events
C22_Witness ==
    /\ nTx = 3
    /\ Len(events) = 2
    /\ events[1] = <<"TokensDeposited", "LUV", Deployer, DefaultAirdropAmount>>
    /\ events[2] = <<"AirdropClaimed", "LUV", "alice", DefaultAirdropAmount>>
    /\ last.ev = events[2]

-----------------------------------------------------------------------------
(* C23 *)

\* the two totals of t
C23_Totals(cfg, t) == <<cfg[t].totalClaimed, cfg[t].totalRecipients>>

\* this step is a claim of t that succeeded
C23_ClaimOf(t) ==
    /\ last'.op \in {"claimAirdrop", "claimAirdropForToken"}
    /\ last'.res = "Ok"
    /\ last'.ev # NoEvent
    /\ last'.ev[1] = "AirdropClaimed"
    /\ last'.ev[2] = t

C23_Step ==
    \A t \in Tokens :
        /\ tokenConfigs'[t].totalClaimed >= tokenConfigs[t].totalClaimed
        /\ tokenConfigs'[t].totalRecipients >= tokenConfigs[t].totalRecipients
        /\ C23_Totals(tokenConfigs', t) # C23_Totals(tokenConfigs, t) => C23_ClaimOf(t)
        /\ (last'.op = "admin" \/ last'.res # "Ok") =>
              C23_Totals(tokenConfigs', t) = C23_Totals(tokenConfigs, t)

\* C23: for every token, totalClaimed and totalRecipients never decrease, and a
\* transaction changes them only if it is a claim of that token that succeeded:
\* no configuration change, deposit, withdrawal, emergency withdrawal or rescue,
\* and no transaction that failed, changes them.
C23_TotalsOnlyGrowByClaims == [][C23_Step]_vars

\* the owner has just changed the configuration of the default token, of which
\* one claim had been paid: the totals are still those of that claim
C23_Witness ==
    /\ last.op = "admin"
    /\ last.res = "Ok"
    /\ last.ev # NoEvent
    /\ last.ev[1] = "AirdropConfigUpdated"
    /\ last.ev[2] = "LUV"
    /\ tokenConfigs["LUV"].amount = 150
    /\ tokenConfigs["LUV"].totalClaimed = DefaultAirdropAmount
    /\ tokenConfigs["LUV"].totalRecipients = 1

-----------------------------------------------------------------------------
(* C24 *)

\* everything the ledger and the token hold about t
C24_Of(w, t) == <<w.cfg[t], w.claimed[t], w.bal[t]>>

\* out, the outcome of an operation on t, has left every other token alone, and
\* with it what a claim of the other token would meet
C24_OthersUntouched(out, t) ==
    \A u \in Tokens \ {t} :
        /\ C24_Of(out.w, u) = C24_Of(World, u)
        /\ \A s \in Addrs : ClaimCheck(out.w, s, u) = ClaimCheck(World, s, u)

C24_Frame ==
    \A t \in Tokens :
        /\ \A s \in Addrs, xf \in {"ok", "reenter"} :
              C24_OthersUntouched(claimAirdropForToken(World, s, t, xf), t)
        /\ owner \in Addrs =>
              /\ \A a \in Amounts, b \in BOOLEAN :
                    C24_OthersUntouched(setAirdropConfig(World, owner, t, a, b), t)
              /\ \A x \in MoveAmounts \ {0} :
                    /\ C24_OthersUntouched(depositTokens(World, owner, t, x, "ok"), t)
                    /\ C24_OthersUntouched(withdrawTokens(World, owner, t, x, "ok"), t)
                    /\ C24_OthersUntouched(
                          rescueTokens(World, owner, t, "alice", x, "ok"), t)
              /\ C24_OthersUntouched(emergencyWithdraw(World, owner, t, "ok"), t)
              /\ C24_OthersUntouched(rescueAllTokens(World, owner, t, "alice", "ok"), t)

\* a transaction whose event names token t has changed nothing of another token,
\* and one that has changed something of a token has recorded an event naming it
C24_Step ==
    \A u \in Tokens :
        <<tokenConfigs'[u], hasClaimed'[u], balances'[u]>>
            # <<tokenConfigs[u], hasClaimed[u], balances[u]>>
        => /\ last'.res = "Ok"
           /\ last'.ev # NoEvent
           /\ last'.ev[2] = u

\* C24: an operation on token T (claim, configuration, deposit, withdrawal,
\* emergency withdrawal, rescue) changes neither the configuration, nor the
\* totals, nor the claim records, nor the balances of any token other than T,
\* whether T or the other token is the default token or not; so a claim of the
\* other token meets after it what it would have met before it.
C24_TokensIndependent == []C24_Frame /\ [][C24_Step]_vars

\* alice has just claimed the other token, configured and funded by the owner:
\* the default token is as the constructor and its funding left it, and alice
\* can still claim it
C24_Witness ==
    /\ LastIsClaim
    /\ last.ev = <<"AirdropClaimed", "OTHER", "alice", 150>>
    /\ hasClaimed["OTHER"]["alice"]
    /\ tokenConfigs["OTHER"].totalClaimed = 150
    /\ custody("OTHER") = Supply - 150
    /\ ~hasClaimed["LUV"]["alice"]
    /\ tokenConfigs["LUV"].totalClaimed = 0
    /\ custody("LUV") = Supply
    /\ ClaimCheck(World, "alice", "LUV") = "Ok"

-----------------------------------------------------------------------------
(* C25 *)

\* in storage w, each query without a token argument returns what the query
\* with the default token for argument returns
C25_Sugar(w) ==
    /\ \A user \in Addrs :
          hasUserClaimedDefault(w, user) = hasUserClaimed(w, defaultToken, user)
    /\ getAirdropStatsDefault(w) = getAirdropStats(w, defaultToken)
    /\ getTokenBalanceDefault(w) = getTokenBalance(w, defaultToken)
    /\ isAirdropActiveDefault(w) = isAirdropActive(w, defaultToken)

\* in storage w, the balance the queries return is the one the token holds for
\* the ledger
C25_Live(w) ==
    /\ \A t \in Tokens :
          /\ getTokenBalance(w, t) = w.bal[t][Ledger]
          /\ getAirdropStats(w, t)[4] = w.bal[t][Ledger]
    /\ getTokenBalanceDefault(w) = w.bal[defaultToken][Ledger]
    /\ getAirdropStatsDefault(w)[4] = w.bal[defaultToken][Ledger]

\* the queries in the current state and inside the claims that can be made in it
C25_Queries ==
    /\ C25_Sugar(World)
    /\ C25_Live(World)
    /\ \A s \in Addrs, t \in Tokens :
          ClaimCheck(World, s, t) = "Ok" =>
              \A w \in TransferPoints(World, s, t) : C25_Sugar(w) /\ C25_Live(w)

\* C25: in every state, and at the transfer inside every claim that can be made
\* in it, hasUserClaimed(user), getAirdropStats(), getTokenBalance() and
\* isAirdropActive() return what hasUserClaimed(defaultToken, user),
\* getAirdropStats(defaultToken), getTokenBalance(defaultToken) and
\* isAirdropActive(defaultToken) return, and the balance that getAirdropStats and
\* getTokenBalance return is the custodial balance at that moment.  The queries
\* are values computed from the state: none of them is a step.
C25_QueriesAreSugar == []C25_Queries

\* the owner has just rescued 100 of the funded ledger's default token, which no
\* storage of the ledger records: the queries return the custody that is left
C25_Witness ==
    /\ last.res = "Ok"
    /\ last.ev = <<"TokensRescued", "LUV", "alice", DefaultAirdropAmount>>
    /\ getTokenBalanceDefault(World) = Supply - DefaultAirdropAmount
    /\ getAirdropStatsDefault(World)
          = <<DefaultAirdropAmount, 0, 0, Supply - DefaultAirdropAmount, TRUE>>
    /\ getAirdropStats(World, "LUV") = getAirdropStatsDefault(World)

-----------------------------------------------------------------------------
(* C26 *)

\* what the constructor called with default token d makes of a blank address
C26_Constructed(out, d) ==
    IF d = NullAddress
    THEN out.res # "Ok" /\ out.w = Blank(balances)
    ELSE /\ out.res = "Ok"
         /\ out.w.cfg[d] = [amount |-> DefaultAirdropAmount, isActive |-> TRUE,
                            totalClaimed |-> 0, totalRecipients |-> 0]
         /\ \A t \in Tokens \ {d} :
               out.w.cfg[t] = [amount |-> 0, isActive |-> FALSE,
                               totalClaimed |-> 0, totalRecipients |-> 0]
         /\ \A t \in Tokens, a \in Addrs : ~hasUserClaimed(out.w, t, a)

\* the constructor, the state it leaves, and the claims of unconfigured tokens
C26_Initially ==
    /\ \A d \in TokenArgs : C26_Constructed(constructor(balances, Deployer, d), d)
    /\ nTx = 0 => World = constructor(balances, Deployer, defaultToken).w
    /\ \A t \in Tokens, s \in Addrs, xf \in XferOutcomes :
          tokenConfigs[t] = EmptyConfig =>
              LET out == claimAirdropForToken(World, s, t, xf) IN
              /\ ErrorKind(out.res) = "NotActive"
              /\ out.w = World
              /\ out.ev = NoEvent

\* C26: construction with a null default token fails; otherwise the constructor
\* leaves the default token configured {amount = 10^30, isActive = true,
\* totalClaimed = 0, totalRecipients = 0}, every other token reading {0, false,
\* 0, 0} and no address having claimed any token, and that is the storage of the
\* ledger before its first transaction; in every state a claim of a token whose
\* configuration is still {0, false, 0, 0} fails with NotActive and changes
\* nothing, whatever balance of it the ledger holds.
C26_InitialState == []C26_Initially

\* the owner has deposited the whole supply of the token the ledger was not
\* constructed for and never configured, and a claim of it has just been turned
\* away as not active
C26_Witness ==
    /\ LastIsClaim
    /\ ErrorKind(last.res) = "NotActive"
    /\ tokenConfigs["OTHER"] = EmptyConfig
    /\ custody("OTHER") = Supply
    /\ tokenConfigs["LUV"].isActive

-----------------------------------------------------------------------------
(* C27 *)

\* setAirdropAmount against setAirdropConfig, in the current state
C27_Equivalent ==
    \A x \in Amounts :
        /\ \A s \in Addrs :
              setAirdropAmount(World, s, x)
                  = setAirdropConfig(World, s, defaultToken, x, TRUE)
        /\ owner \in Addrs =>
              LET out == setAirdropAmount(World, owner, x) IN
              /\ out.res = "Ok"
              /\ out.ev = <<"AirdropConfigUpdated", defaultToken,
                            tokenConfigs[defaultToken].amount, x, TRUE>>
              /\ out.w = [World EXCEPT !.cfg[defaultToken].amount = x,
                                       !.cfg[defaultToken].isActive = TRUE]
              /\ C23_Totals(out.w.cfg, defaultToken)
                    = C23_Totals(tokenConfigs, defaultToken)
              /\ out.w.claimed = hasClaimed

\* C27: setAirdropAmount(x) ends, for every caller, as setAirdropConfig(
\* defaultToken, x, true) does; called by the owner it sets the default token's
\* amount to x, also for x = 0, and isActive to true whatever it was, records
\* AirdropConfigUpdated(defaultToken, old amount, x, true), and leaves the totals,
\* the claim records and everything else as they were.
C27_SetAmountIsSetConfig == []C27_Equivalent

\* the default token had been deactivated with amount 150; the owner has just
\* set its amount to 0, and it is active again
C27_Witness ==
    /\ nTx = 2
    /\ last.res = "Ok"
    /\ last.ev = <<"AirdropConfigUpdated", "LUV", 150, 0, TRUE>>
    /\ tokenConfigs["LUV"].amount = 0
    /\ tokenConfigs["LUV"].isActive

-----------------------------------------------------------------------------
(* C28 *)

\* each overload for the default token against the parameterised function
C28_Equivalent ==
    \A s \in Addrs, xf \in XferOutcomes :
        /\ \A x \in MoveAmounts :
              /\ depositTokensDefault(World, s, x, xf)
                    = depositTokens(World, s, defaultToken, x, xf)
              /\ withdrawTokensDefault(World, s, x, xf)
                    = withdrawTokens(World, s, defaultToken, x, xf)
        /\ emergencyWithdrawDefault(World, s, xf)
              = emergencyWithdraw(World, s, defaultToken, xf)

\* C28: in every state, for every caller, amount and answer of the token,
\* depositTokens(x), withdrawTokens(x) and emergencyWithdraw() end as
\* depositTokens(defaultToken, x), withdrawTokens(defaultToken, x) and
\* emergencyWithdraw(defaultToken) do: the same result, the same balances and
\* storage, the same event.
C28_DefaultOverloadsAreSugar == []C28_Equivalent

\* the owner has just deposited 100 of the default token on the ledger that held
\* none, through either form of depositTokens
C28_Witness ==
    /\ nTx = 1
    /\ last.res = "Ok"
    /\ last.ev = <<"TokensDeposited", "LUV", Deployer, DefaultAirdropAmount>>
    /\ custody("LUV") = DefaultAirdropAmount
    /\ balances["LUV"][Deployer] = Supply - DefaultAirdropAmount

-----------------------------------------------------------------------------
(* C29 *)

\* the amounts of the events of log that are of one of kinds and for token t,
\* summed
RECURSIVE C29_Sum(_, _, _)
C29_Sum(log, kinds, t) ==
    IF log = <<>> THEN 0
    ELSE (IF Head(log)[1] \in kinds /\ Head(log)[2] = t THEN Head(log)[4] ELSE 0)
         + C29_Sum(Tail(log), kinds, t)

C29_Deposited(t) == C29_Sum(events, {"TokensDeposited"}, t)

C29_Sent(t) ==
    C29_Sum(events, {"TokensWithdrawn", "EmergencyWithdraw", "TokensRescued"}, t)

\* no tokens have reached the ledger other than by depositTokens: the ledger
\* starts empty, and no rescue has named the ledger itself as its recipient
C29_OnlyDeposits ==
    \A i \in 1..Len(events) :
        ~(events[i][1] = "TokensRescued" /\ events[i][3] = Ledger)

\* with the token accepting, no transfer the ledger asks for is refused: it never
\* asks for more than it holds
C29_NeverAsksTooMuch ==
    \A t \in Tokens :
        /\ \A s \in Addrs :
              ErrorKind(claimAirdropForToken(World, s, t, "ok").res) # "TransferFailed"
        /\ owner \in Addrs =>
              /\ \A x \in MoveAmounts :
                    /\ ErrorKind(withdrawTokens(World, owner, t, x, "ok").res)
                          # "TransferFailed"
                    /\ ErrorKind(rescueTokens(World, owner, t, "alice", x, "ok").res)
                          # "TransferFailed"
              /\ ErrorKind(emergencyWithdraw(World, owner, t, "ok").res)
                    # "TransferFailed"
              /\ ErrorKind(rescueAllTokens(World, owner, t, "alice", "ok").res)
                    # "TransferFailed"

\* a transaction never takes out of custody more than was in it
C29_Step ==
    \A t \in Tokens :
        /\ balances'[t][Ledger] >= 0
        /\ (last'.res = "Ok" /\ last'.ev # NoEvent
              /\ last'.ev[1] \in {"AirdropClaimed", "TokensWithdrawn",
                                  "EmergencyWithdraw", "TokensRescued"}
              /\ last'.ev[2] = t)
           => last'.ev[4] <= custody(t)

\* C29: with a token that moves what it is asked to and no transfer to the
\* ledger other than depositTokens, in every reachable state custody(T) is the
\* sum of the amounts deposited, less the sum of the amounts withdrawn,
\* emergency-withdrawn and rescued, less totalClaimed(T); every transfer the
\* ledger asks for (claim, withdrawal, rescue, emergency withdrawal) is of an
\* amount <= custody at that moment, so custody is never negative.
C29_CustodyAccounting ==
    /\ [](/\ \A t \in Tokens :
              /\ C29_OnlyDeposits =>
                    custody(t) = C29_Deposited(t) - C29_Sent(t)
                                   - tokenConfigs[t].totalClaimed
              /\ custody(t) >= 0
          /\ C29_NeverAsksTooMuch)
    /\ [][C29_Step]_vars

\* 250 of the default token deposited, 100 claimed by alice, the other 150
\* rescued: custody is 0
C29_Witness ==
    /\ nTx = 3
    /\ C29_OnlyDeposits
    /\ C29_Deposited("LUV") = Supply
    /\ tokenConfigs["LUV"].totalClaimed = DefaultAirdropAmount
    /\ last.ev = <<"TokensRescued", "LUV", "alice", Supply - DefaultAirdropAmount>>
    /\ C29_Sent("LUV") = Supply - DefaultAirdropAmount
    /\ custody("LUV") = 0

-----------------------------------------------------------------------------
(* C30 *)

\* two outcomes that differ at most in what the accounts outside the ledger
\* hold: the same result, event, storage of the ledger and custody
C30_Same(a, b) ==
    /\ a.res = b.res
    /\ a.ev = b.ev
    /\ C17_LedgerState(a.w) = C17_LedgerState(b.w)
    /\ \A t \in Tokens : a.w.bal[t][Ledger] = b.w.bal[t][Ledger]

\* every claim, withdrawal and rescue ends on storage a as it does on storage b
C30_SameOperations(a, b, t) ==
    /\ \A s \in Addrs, xf \in XferOutcomes :
          C30_Same(claimAirdropForToken(a, s, t, xf), claimAirdropForToken(b, s, t, xf))
    /\ \A x \in MoveAmounts \ {0} :
          /\ C30_Same(withdrawTokens(a, owner, t, x, "ok"),
                      withdrawTokens(b, owner, t, x, "ok"))
          /\ C30_Same(rescueTokens(a, owner, t, "bob", x, "ok"),
                      rescueTokens(b, owner, t, "bob", x, "ok"))
    /\ C30_Same(emergencyWithdraw(a, owner, t, "ok"), emergencyWithdraw(b, owner, t, "ok"))
    /\ C30_Same(rescueAllTokens(a, owner, t, "bob", "ok"),
                rescueAllTokens(b, owner, t, "bob", "ok"))

C30_FundingPaths ==
    owner \in Addrs =>
        \A t \in Tokens, x \in MoveAmounts \ {0}, from \in Addrs :
            (balances[t][owner] >= x /\ balances[t][from] >= x) =>
                LET deposited == depositTokens(World, owner, t, x, "ok")
                    sent == DirectTransfer(World, t, from, x)
                IN  /\ deposited.res = "Ok"
                    /\ deposited.ev = <<"TokensDeposited", t, owner, x>>
                    /\ from = owner => sent = deposited.w
                    /\ sent.bal[t][Ledger] = custody(t) + x
                    /\ C17_LedgerState(sent) = C17_LedgerState(World)
                    /\ C30_SameOperations(sent, deposited.w, t)
                    /\ \A s \in Addrs :
                          ClaimCheck(sent, s, t) = ClaimCheck(deposited.w, s, t)

\* C30: whether a claim can be made depends on the balance the token holds for
\* the ledger, not on how it got there: after any account has sent x of a token
\* straight to the ledger's address, with no call of depositTokens and no
\* TokensDeposited, every claim, withdrawal and rescue of that token ends as it
\* does after the owner has deposited x with depositTokens.
C30_FundingPathIrrelevant == []C30_FundingPaths

\* the deployer sent the whole supply of the default token straight to the
\* ledger, depositTokens was never called, and alice has just been paid her claim
C30_Witness ==
    /\ nTx = 1
    /\ LastIsClaim
    /\ last.ev = <<"AirdropClaimed", "LUV", "alice", DefaultAirdropAmount>>
    /\ balances["LUV"][Deployer] = 0
    /\ custody("LUV") = Supply - DefaultAirdropAmount
    /\ balances["LUV"]["alice"] = DefaultAirdropAmount

-----------------------------------------------------------------------------
(* C31 *)

\* a claim that passes every require and whose amount would take totalClaimed
\* past the largest uint256 fails as a whole
C31_OverflowReverts ==
    \A t \in Tokens, s \in Addrs, xf \in XferOutcomes \cup {"reenter"} :
        (/\ ClaimCheck(World, s, t) = "Ok"
         /\ tokenConfigs[t].totalClaimed + tokenConfigs[t].amount > MaxUint)
        => LET out == claimAirdropForToken(World, s, t, xf) IN
           /\ out.res = Panic
           /\ out.w = World
           /\ ~hasUserClaimed(out.w, t, s)
           /\ out.ev = NoEvent

\* the counters hold uint256 values, and totalClaimed is the sum, not reduced,
\* of what the claims on record were paid
C31_InRange ==
    \A t \in Tokens :
        /\ tokenConfigs[t].totalClaimed \in 0..MaxUint
        /\ tokenConfigs[t].totalRecipients \in 0..MaxUint
        /\ tokenConfigs[t].totalClaimed
              = paidOut[t]["owner"] + paidOut[t]["alice"] + paidOut[t]["bob"]

\* a transaction that fails on the overflow leaves everything as it was, and no
\* transaction lowers a counter
C31_Step ==
    /\ last'.res = Panic =>
          UNCHANGED <<owner, tokenConfigs, hasClaimed, status, balances,
                      amountAtClaim, paidOut>>
    /\ \A t \in Tokens :
          /\ tokenConfigs'[t].totalClaimed >= tokenConfigs[t].totalClaimed
          /\ tokenConfigs'[t].totalRecipients >= tokenConfigs[t].totalRecipients

\* C31: totalClaimed and totalRecipients never wrap.  They stay within uint256
\* and never decrease, and a claim whose amount would take totalClaimed past
\* the largest uint256 fails as a whole, with the claim record not set, nothing
\* transferred and no event, instead of storing the sum reduced modulo 2^256.
C31_CountersNeverWrap == [](C31_OverflowReverts /\ C31_InRange) /\ [][C31_Step]_vars

\* with totalClaimed at 300 of at most 400, custody of 250 and the amount 150, the
\* claim of the one address that had not claimed has just failed on the overflow
C31_Witness ==
    /\ LastIsClaim
    /\ last.res = Panic
    /\ tokenConfigs["LUV"].totalClaimed = 300
    /\ tokenConfigs["LUV"].amount = 150
    /\ custody("LUV") = Supply
    /\ ~hasClaimed["LUV"]["owner"]

-----------------------------------------------------------------------------
(* C32 *)

\* what the claim names, of the values last read: connected, not claimed, custody
\* not below the amount, active
C32_MayClaim(u, r) ==
    /\ u.account.isConnected
    /\ ~(Known(r.userClaimed) /\ Val(r.userClaimed))
    /\ (IF Known(r.airdropBalance) THEN Val(r.airdropBalance).value ELSE 0)
          >= (IF Known(r.airdropStats) THEN Val(r.airdropStats)[1] ELSE 0)
    /\ Known(r.airdropStats) /\ Val(r.airdropStats)[5]

\* the message of the first guard that fails, in the order connected, claimed,
\* ended, paused
C32_Refusal(u, r) ==
    IF ~u.account.isConnected THEN "Please connect your wallet first"
    ELSE IF Known(r.userClaimed) /\ Val(r.userClaimed)
    THEN "You have already claimed your airdrop"
    ELSE IF getAirdropStatus(r).hasEnded
    THEN (IF ~Known(r.airdropBalance) \/ Val(r.airdropBalance).value = 0
          THEN "Airdrop has ended - No tokens remaining"
          ELSE "Airdrop has ended - Insufficient tokens")
    ELSE "Airdrop is currently paused"

C32_ClaimCall ==
    [address |-> AIRDROP_ADDRESS, functionName |-> "claimAirdropForToken",
     args |-> <<LUV_TOKEN_ADDRESS>>]

\* what a call of handleClaim leaves, by whether the claim may be made
C32_Outcome(u, r, out) ==
    IF C32_MayClaim(u, r)
    THEN /\ out.wallet = Append(u.wallet, C32_ClaimCall)
         /\ Len(out.transactionLogs) = Len(u.transactionLogs) + 1
         /\ out.transactionLogs[1].type = "claim"
         /\ out.transactionLogs[1].status = "pending"
         /\ out.message = u.message
    ELSE out = [u EXCEPT !.message = C32_Refusal(u, r)]

C32_Guards ==
    \A r \in ClaimReads :
        /\ getAirdropStatus(r).hasEnded
             <=> (IF Known(r.airdropBalance) THEN Val(r.airdropBalance).value ELSE 0)
                   < (IF Known(r.airdropStats) THEN Val(r.airdropStats)[1] ELSE 0)
        /\ C32_Outcome(Ui, r, handleClaim(Ui, r))

\* a claim reaches the wallet in a step that adds the pending entry, with the
\* wallet connected
C32_Step ==
    (Len(walletLog') > Len(walletLog)
       /\ walletLog'[Len(walletLog')] = [what |-> "submitted", call |-> C32_ClaimCall])
    => /\ account.isConnected
       /\ transactionLogs' # <<>>
       /\ transactionLogs'[1].type = "claim"
       /\ transactionLogs'[1].status = "pending"
       /\ Len(transactionLogs') = Len(transactionLogs) + 1

\* C32: handleClaim hands a claimAirdropForToken(LUV) call to the wallet and adds
\* a pending claim entry only when the wallet is connected, the last-read
\* hasUserClaimed is not true, the last-read custody is not below the last-read
\* amount and the last-read isActive is true.  Otherwise the first guard that
\* fails, in that order, sets the message and nothing else changes: no call,
\* no entry.
C32_ClaimGuards == []C32_Guards /\ [][C32_Step]_vars

\* a visitor's claim has gone to the wallet and the pending entry is in the log
C32_Witness ==
    /\ account = [address |-> Visitor, isConnected |-> TRUE]
    /\ wallet = <<C32_ClaimCall>>
    /\ transactionLogs = <<[id |-> 1, type |-> "claim", status |-> "pending"]>>
    /\ message = FirstRender.message

-----------------------------------------------------------------------------
(* C33 *)

C33_Approve(amount) ==
    [address |-> LUV_TOKEN_ADDRESS, functionName |-> "approve",
     args |-> <<AIRDROP_ADDRESS, amount>>]

C33_Transfer(amount) ==
    [address |-> LUV_TOKEN_ADDRESS, functionName |-> "transfer",
     args |-> <<AIRDROP_ADDRESS, amount>>]

\* what the claim names: connected as the funding account, a positive amount in
\* the field, not above the balance if one was read
C33_MayFund(u, userBalance) ==
    /\ u.account.isConnected
    /\ u.account.address \in {FUNDING_ADDRESS, FundingLowerCase}
    /\ ~parseEther(u.fundingAmount).throws
    /\ parseEther(u.fundingAmount).value > 0
    /\ Known(userBalance) => parseEther(u.fundingAmount).value <= Val(userBalance).value

\* what a call of handleFundingTransfer hands to the wallet
C33_Handled(u, userBalance, out) ==
    /\ out.wallet # u.wallet =>
          /\ C33_MayFund(u, userBalance)
          /\ out.wallet = Append(u.wallet, C33_Approve(parseEther(u.fundingAmount).value))
    /\ out.walletLog # u.walletLog => C33_MayFund(u, userBalance)
    /\ ~C33_MayFund(u, userBalance) =>
          /\ out.wallet = u.wallet
          /\ out.transactionLogs = u.transactionLogs

C33_Guards ==
    \A userBalance \in BalanceReads, approveCall \in {"returns", "throws"} :
        C33_Handled(Ui, userBalance, handleFundingTransfer(Ui, userBalance, approveCall))

C33_IsApproved(e) == e.what = "success" /\ e.call.functionName = "approve"
C33_IsTransfer(e) == e.what = "submitted" /\ e.call.functionName = "transfer"

\* as many transfers have been handed to the wallet as approvals have succeeded
C33_OnePerApproval ==
    Len(SelectSeq(walletLog, C33_IsTransfer)) = Len(SelectSeq(walletLog, C33_IsApproved))

\* a transfer is handed to the wallet in the step in which an approve call of
\* the same amount reports success, right after that report; the step in which
\* an approve call reports an error hands nothing to the wallet
C33_Step ==
    LET n == Len(walletLog) IN
    /\ (Len(walletLog') > n /\ C33_IsTransfer(walletLog'[Len(walletLog')])) =>
          /\ Len(walletLog') = n + 2
          /\ \E i \in DOMAIN wallet :
                /\ wallet[i].functionName = "approve"
                /\ walletLog'[n + 1] = [what |-> "success", call |-> wallet[i]]
                /\ walletLog'[n + 2] =
                      [what |-> "submitted", call |-> C33_Transfer(wallet[i].args[2])]
    /\ (Len(walletLog') > n /\ walletLog'[n + 1].what = "error"
           /\ walletLog'[n + 1].call.functionName = "approve") =>
          /\ Len(walletLog') = n + 1
          /\ Len(wallet') = Len(wallet) - 1

\* C33: in handleFundingTransfer's flow the transfer to the airdrop contract is
\* handed to the wallet only when the approve call has reported success, and
\* in that very callback; an approval that fails is followed by no transfer;
\* and the handler hands nothing to the wallet unless the wallet is connected
\* as the funding account, the amount is positive and the amount is not above
\* the balance last read, if one was read.
C33_TransferAfterApproval == [](C33_Guards /\ C33_OnePerApproval) /\ [][C33_Step]_vars

\* the funding account asked for 1 token: approved, and the transfer is with
\* the wallet
C33_Witness ==
    /\ walletLog = << [what |-> "submitted", call |-> C33_Approve(10)],
                      [what |-> "success", call |-> C33_Approve(10)],
                      [what |-> "submitted", call |-> C33_Transfer(10)] >>
    /\ wallet = <<C33_Transfer(10)>>

-----------------------------------------------------------------------------
(* C34 *)

C34_Types == {"claim", "approval", "deposit", "withdraw", "emergency"}

\* the entries of a type with one of some statuses, among the oldest k
C34_Entries(type, statuses, k) ==
    {i \in DOMAIN transactionLogs :
        /\ i > Len(transactionLogs) - k
        /\ transactionLogs[i].type = type
        /\ transactionLogs[i].status \in statuses}

\* the wallet calls whose answer is to resolve a pending entry of the type: of
\* a deposit, the approve call of the funding transfer and then its transfer
C34_Awaited(type) ==
    {i \in DOMAIN wallet :
        wallet[i].functionName \in
            CASE type = "claim" -> {"claimAirdropForToken"}
              [] type = "approval" -> {"approve"}
              [] type = "deposit" -> {"approve", "transfer"}
              [] type = "withdraw" -> {"withdrawTokens"}
              [] type = "emergency" -> {"emergencyWithdraw"}}

\* C34: every pending entry is followed by exactly one success or error entry of
\* its type once the wallet call has been answered: of each type there are as
\* many pending entries without a success or error entry as wallet calls still
\* awaited, none when no call is awaited, and no success or error entry comes
\* before its pending entry.  This holds of the deposit entry of a funding
\* transfer also when the approval fails.
C34_PendingResolved ==
    \A type \in C34_Types :
        /\ Cardinality(C34_Entries(type, {"pending"}, Len(transactionLogs)))
             = Cardinality(C34_Entries(type, {"success", "error"}, Len(transactionLogs)))
               + Cardinality(C34_Awaited(type))
        /\ \A k \in 0..Len(transactionLogs) :
              Cardinality(C34_Entries(type, {"success", "error"}, k))
                <= Cardinality(C34_Entries(type, {"pending"}, k))

-----------------------------------------------------------------------------
(* C35 *)

\* at most 10 entries, each added after the ones behind it
C35_Bounded ==
    /\ Len(transactionLogs) <= 10
    /\ \A i, j \in DOMAIN transactionLogs :
          i < j => transactionLogs[i].id > transactionLogs[j].id

\* a step that adds an entry puts it first, keeps the others in their order,
\* and drops the last one, and only that one, exactly when there were 10
C35_Step ==
    transactionLogs' # transactionLogs =>
        /\ \A i \in DOMAIN transactionLogs : transactionLogs'[1].id # transactionLogs[i].id
        /\ Len(transactionLogs') =
              IF Len(transactionLogs) = 10 THEN 10 ELSE Len(transactionLogs) + 1
        /\ \A i \in 2..Len(transactionLogs') : transactionLogs'[i] = transactionLogs[i - 1]

\* C35: the transaction log is a bounded, newest-first list.  It never holds more
\* than 10 entries; an added entry comes first; the entries already there keep
\* their order; and adding to a list of 10 drops exactly the oldest entry.
C35_BoundedNewestFirst == []C35_Bounded /\ [][C35_Step]_vars

\* an eleventh entry has been added: the list holds 10, the first entry gone
C35_Witness ==
    /\ Len(transactionLogs) = 10
    /\ transactionLogs[1].id = 11
    /\ transactionLogs[10].id = 2

-----------------------------------------------------------------------------
(* C36 *)

\* a transaction of the script failed: it was never sent, its receipt never
\* came, or it reverted
C36_Failed(tx) == tx.answer # "success"

C36_Deposits == {j \in DOMAIN script.sent : script.sent[j].functionName = "depositTokens"}
C36_Approvals == {j \in DOMAIN script.sent : script.sent[j].functionName = "approve"}

\* C36: main calls depositTokens only when the balance read covers the funding
\* amount and the allowance is sufficient: an approve transaction has been sent
\* and has gone through before it exactly when the allowance read is below the
\* funding amount.  When the balance is insufficient, the approval fails or the
\* deposit fails, the script ends with exit code 1 and reports no success.
C36_FundingFlow ==
    /\ \A j \in C36_Deposits :
          /\ script.ownerBalance >= script.fundingAmount
          /\ script.sent[j].amount = script.fundingAmount
          /\ IF script.allowance < script.fundingAmount
             THEN /\ j = 2
                  /\ script.sent[1].functionName = "approve"
                  /\ script.sent[1].amount = script.fundingAmount
                  /\ ~C36_Failed(script.sent[1])
             ELSE j = 1
    /\ (/\ script.pc = "exited"
        /\ \/ script.ownerBalance < script.fundingAmount
           \/ \E j \in DOMAIN script.sent : C36_Failed(script.sent[j]))
       => /\ script.exitCode = Some(1)
          /\ ~script.success

====
